---- MODULE Spec2Model ----
(***************************************************************************)
(* Kiosk discovery / validation / health / backoff loop of                 *)
(* scripts/kiosk-launch/discover_and_launch.py.                            *)
(*                                                                         *)
(* One process: main().  Each statement group of the loop body is one      *)
(* action, `pc` is the position of main() (or of get_server_ip, which      *)
(* main() calls at the top of each iteration).  Everything the network,    *)
(* the resolver and the file system can answer is chosen with \E.          *)
(*                                                                         *)
(* Python values:                                                          *)
(*   - a host is the last octet of its address in the device's /24;        *)
(*     NoIp (0) stands for None                                            *)
(*   - a kiosk port of 0 stands for every falsy port (None, 0)             *)
(*   - the token "" stands for every falsy token (None, '')                *)
(*   - zone "" stands for "no zone configured" (get_zone() returned None)  *)
(***************************************************************************)
EXTENDS Integers, Sequences, FiniteSets

\* ------------------------------------------------------------------ bounds

\* The sweep of the source visits hosts .1 .. .254; the model visits
\* .1 .. .MaxHost.
MaxHost == 2

\* The listener callbacks zeroconf delivers during one mDNS browse.
MaxCallbacks == 3

\* checks of touch_monitor_loop that are followed
MaxTicks == 7

\* calls of ManualSetupServer.start of the portable-kiosk launcher that are followed
MaxSetups == 5

\* checks of the saved-URL loop of the kiosk-client launcher that are followed
MaxChecks == 5

\* ------------------------------------------------------- program constants

NoIp == 0
BACKOFF_MIN == 1
BACKOFF_MAX == 30
BACKOFF_MULTIPLIER == 2
POLL_INTERVAL == 30

\* Durations, in tenths of a second: line 76 (event.wait(timeout=2)), lines
\* 165 and 182 (timeout=2), line 136 (timeout=0.1), line 18
\* (DISCOVERY_TIMEOUT_MS = 8000); line 132: range(1, 255) ends at 254.
MDNS_WAIT == 20
QUERY_TIMEOUT == 20
SCAN_TIMEOUT == 1
DISCOVERY_TIMEOUT == 80
SCAN_LAST == 254
DISCOVERY_PORT == 3000
DEFAULT_KIOSK_PORT == 3002

Hosts == 1..MaxHost
KioskPorts == {DEFAULT_KIOSK_PORT, DEFAULT_KIOSK_PORT + 1}
Tokens == {"abc", "xyz"}
Zones == {"z1"}

\* ------------------------------------------------------------- data shapes

\* What one GET /discover can produce.
\*   timeout, refused : requests.RequestException raised by requests.get
\*   status           : a response whose status_code is not 200
\*   badjson          : 200, body is not JSON: response.json() raises
\*                      requests.exceptions.JSONDecodeError (a RequestException)
\*   nonobject        : 200, body is JSON but no object (a list, null, ...):
\*                      data.get raises AttributeError
\*   ok               : 200, body is a JSON object; kioskPort -1 stands for
\*                      "key absent", 0 for null
ErrorResponse(k) == [kind |-> k, role |-> "", kioskPort |-> -1, token |-> ""]

NoResponse == ErrorResponse("none")

DiscoverResponses ==
    {ErrorResponse(k) : k \in {"timeout", "refused", "status", "badjson", "nonobject"}}
    \cup [kind : {"ok"}, role : {"main-server", "other"},
          kioskPort : KioskPorts \cup {-1, 0}, token : Tokens \cup {""}]

IsRequestException(r) == r.kind \in {"timeout", "refused", "badjson"}

\* data.get("kioskPort", 3002)
KioskPortOf(r) == IF r.kioskPort = -1 THEN DEFAULT_KIOSK_PORT ELSE r.kioskPort

\* IsMainServer without the role check.
IsMainServer_AnyRole(r) == r.kind = "ok"

\* response.status_code == 200 and data.get("role") == "main-server"
IsMainServer(r) == r.kind = "ok" /\ r.role = "main-server"

\* What the bounded wait of discover_server_mdns can end with: no announcement
\* (timeout), or an announcement with its TXT record (kioskPort -1: key absent).
Announcements ==
    {ErrorResponse("timeout")}
    \cup [kind : {"ok"}, role : {"main-server", "other"},
          kioskPort : KioskPorts \cup {-1, 0}, token : Tokens \cup {""}]

\* ServerListener.add_service, line 38: properties.get(b'role') == b'main-server'
IsMainAnnouncement(a) == a.kind = "ok" /\ a.role = "main-server"

\* The role an answer carries, "" when there is none (no answer, no 200).
RoleOf(r) == IF r.kind = "ok" THEN r.role ELSE ""

\* What GET /health can produce: 200, another status, a RequestException.
HealthOutcomes == {"200", "500", "error"}

\* The cache file.  absent: FileNotFoundError; unreadable: another OSError
\* (PermissionError); badjson: json.JSONDecodeError (an empty or truncated file
\* included); nonobject: valid JSON that is no object; object: a JSON object,
\* ip 0 / kioskPort 0 standing for a missing key.
BrokenCache(k) == [kind |-> k, ip |-> NoIp, kioskPort |-> 0]

CacheObject(i, p) == [kind |-> "object", ip |-> i, kioskPort |-> p]

CacheContents ==
    {BrokenCache(k) : k \in {"absent", "unreadable", "badjson", "nonobject"}}
    \cup {CacheObject(i, p) : i \in Hosts \cup {NoIp}, p \in KioskPorts \cup {0}}

\* Display directives: launch_chromium(OFFLINE_URL), launch_chromium(url).
NoDirective == [kind |-> "none", host |-> NoIp, port |-> 0, zone |-> ""]

ShowOffline == [kind |-> "offline", host |-> NoIp, port |-> 0, zone |-> ""]

\* f"http://{ip}:{kiosk_port}/?zone={zone}"
ShowUrl(i, p, z) == [kind |-> "url", host |-> i, port |-> p, zone |-> z]

\* check_server_health has not been called in this iteration.
NoTarget == [ip |-> NoIp, port |-> 0]

NoCandidate == [source |-> "none", ip |-> NoIp, kiosk_port |-> 0, token |-> ""]

Min(a, b) == IF a < b THEN a ELSE b

\* ------------------------------------------------------------------- state

VARIABLES
    pc,             \* position of main()
    zone,           \* get_zone()
    current_ip,     \* main: the pinned host
    backoff_delay,  \* main
    cache,          \* content of CACHE_PATH
    display,        \* the last directive given to launch_chromium
    ip, gateway_port, kiosk_port, token,   \* main: locals of the iteration
    scan_i,         \* discover_server_http_scan: loop index
    raised,         \* where an uncaught exception left main(), "" if none
    \* history of the current iteration
    candidate,      \* what get_server_ip returned
    vresp,          \* the answer to the validation re-query
    probe,          \* the answer to the health probe ("none": not probed)
    prev_ip,        \* current_ip at the start of the iteration
    prev_display,   \* display at the start of the iteration
    issued,         \* directives issued in this iteration
    saved,          \* the cache write of lines 283-284 was executed
    probed,         \* the host and port check_server_health was called with
    rresp,          \* the answer to the sweep's second query (none: not asked)
    \* history of the current call of get_server_ip, dropped when main() has
    \* taken the result
    tried,          \* the strategies run so far, each with the role it was answered
    queried,        \* the hosts the sweep has queried, each with the role it answered
    \* history across iterations
    outcome,        \* how the last decided iteration ended
    slept,          \* the duration of the last time.sleep of the loop, 0 if none
    \* the environment
    steady,         \* the network has settled: SteadyServer answers every request
    \* the cache file shared by two processes (CacheSpec)
    file,           \* content of CACHE_PATH
    old,            \* its content before the controller's write
    entry,          \* the entry the controller writes
    wpc,            \* the controller's position in lines 283-284
    rpc,            \* the starting process's position in lines 189-195
    seen,           \* what the starting process read
    \* the time one call of get_server_ip takes (TimeSpec)
    tpc,            \* position of get_server_ip
    thost,          \* discover_server_http_scan: loop index
    telapsed,       \* tenths of a second since the call began
    \* ServerListener and the waiting discover_server_mdns (MdnsSpec)
    server_info,    \* ServerListener.server_info: a service name, "" for None
    event,          \* ServerListener.event is set
    mpc,            \* position of discover_server_mdns
    woke,           \* how listener.event.wait ended: "event" or "timeout"
    mresult,        \* what discover_server_mdns returned, "none" for no server
    callbacks,      \* the callbacks delivered so far
    \* the saved-URL loop of kiosk-client/portable_launcher.py (ClientSpec)
    cpc,            \* position of main()
    kiosk_url,      \* main: the saved URL
    was_offline,    \* main
    offline_screen, \* main: an OfflineScreen is held (not None)
    serving,        \* OfflineScreen servers whose serve_forever runs
    listening,      \* open listening sockets on SETUP_PORT
    browser,        \* the URL of the last launch_browser, "" if none
    checked,        \* the result of the latest check_server, "none" if none
    before,         \* the result of the check before it
    done,           \* what the latest iteration did, in order
    checks,         \* check_server calls so far
    runs,           \* contiguous runs of failed checks begun so far
    starts,         \* OfflineScreen.start calls that returned
    \* touch_monitor_loop of kiosk-client/portable_launcher.py (TouchSpec)
    touch_pc,       \* position of touch_monitor_loop
    failure_count,  \* touch_monitor_loop
    last_reset_time,\* touch_monitor_loop
    clock,          \* what time.time() returns, in seconds
    log,            \* the outcome of each check so far: ok, fail, or reset
    resets,         \* the value of current_time at each reset, in order
    \* SetupWizard of kiosk-client/portable_launcher.py (WizardSpec)
    wizard_pc,      \* position of SetupWizard.start
    step,           \* wizard.step
    wizard_url,     \* wizard.kiosk_url
    error_message,  \* wizard.error_message: "", "empty" or "notfound"
    result_url,     \* wizard.result_url, "" for None
    done_event,     \* wizard.done_event is set
    config,         \* kiosk_url of the saved configuration, "" if none
    hpc,            \* the position of each request handler thread
    form_url,       \* _handle_manual_submit: url
    done_step,      \* wizard.step when done_event was set, 0 if it was not
    returned_url,   \* what SetupWizard.start returned, "" for None
    \* main() of portable-kiosk/portable_launcher.py (PortableSpec)
    ppc,            \* position of main()
    pconfig,        \* main: config
    stale,          \* listening sockets that earlier setup servers left open
    launched,       \* the URL the kiosk browser was launched with, NoUrl if none
    pinged,         \* the result of ping_server in the latest attempt
    setups,         \* ManualSetupServer.start calls that returned
    answer,         \* what the latest ManualSetupServer.start returned
    \* ManualSetupServer of portable-kiosk/portable_launcher.py (SetupSpec)
    setup_pc,       \* position of ManualSetupServer.start
    result,         \* outer._result, NoResult for {}
    setup_event,    \* outer._event is set
    saved_config,   \* content of CONFIG_PATH, NoResult if none was saved
    post_pc,        \* the position of each do_POST thread
    form,           \* do_POST: zone and server_url of the form, per thread
    accepted,       \* do_POST: zone and normalized_url, per thread
    setup_result    \* what ManualSetupServer.start returned

locals == <<ip, gateway_port, kiosk_port, token>>
callhist == <<tried, queried>>
mainvars ==
    <<pc, zone, current_ip, backoff_delay, cache, display, ip, gateway_port,
      kiosk_port, token, scan_i, raised, candidate, vresp, probe, prev_ip,
      prev_display, issued, saved, probed, rresp, tried, queried, outcome,
      slept, steady>>
cachevars == <<file, old, entry, wpc, rpc, seen>>
\* the variables main() of discover_and_launch.py does not touch
timevars == <<tpc, thost, telapsed>>
mdnsvars == <<server_info, event, mpc, woke, mresult, callbacks>>
clientvars ==
    <<cpc, kiosk_url, was_offline, offline_screen, serving, listening, browser,
      checked, before, done, checks, runs, starts>>
touchvars == <<touch_pc, failure_count, last_reset_time, clock, log, resets>>
wizardvars ==
    <<wizard_pc, step, wizard_url, error_message, result_url, done_event, config,
      hpc, form_url, done_step, returned_url>>
portablevars == <<ppc, pconfig, stale, launched, pinged, setups, answer>>
setupvars == <<setup_pc, result, setup_event, saved_config, post_pc, form, accepted, setup_result>>
\* the variables of the other launchers
morevars ==
    <<clientvars, touchvars, wizardvars, portablevars, setupvars>>
others == <<cachevars, timevars, mdnsvars, morevars>>
vars == <<mainvars, others>>

\* main() before its first statement
MainInit ==
    /\ pc = "start"
    /\ zone \in Zones \cup {""}
    /\ current_ip = NoIp
    /\ backoff_delay = BACKOFF_MIN
    /\ cache \in CacheContents
    /\ display = NoDirective
    /\ ip = NoIp /\ gateway_port = 0 /\ kiosk_port = 0 /\ token = ""
    /\ scan_i = 0
    /\ raised = ""
    /\ candidate = NoCandidate
    /\ vresp = NoResponse
    /\ probe = "none"
    /\ prev_ip = NoIp
    /\ prev_display = NoDirective
    /\ issued = <<>>
    /\ saved = FALSE
    /\ probed = NoTarget
    /\ rresp = NoResponse
    /\ tried = <<>>
    /\ queried = <<>>
    /\ outcome = "none"
    /\ slept = 0
    /\ steady = FALSE

\* no second process: the cache file is the variable cache alone
CacheIdle ==
    /\ file = BrokenCache("absent")
    /\ old = BrokenCache("absent")
    /\ entry = BrokenCache("absent")
    /\ wpc = "off"
    /\ rpc = "off"
    /\ seen = BrokenCache("absent")

\* no call of get_server_ip is being timed
TimeIdle ==
    /\ tpc = "off"
    /\ thost = 0
    /\ telapsed = 0

\* no mDNS browse is looked at on its own
MdnsIdle ==
    /\ server_info = ""
    /\ event = FALSE
    /\ mpc = "off"
    /\ woke = ""
    /\ mresult = ""
    /\ callbacks = <<>>

\* the kiosk-client launcher is not running
ClientIdle ==
    /\ cpc = "off"
    /\ kiosk_url = ""
    /\ was_offline = FALSE
    /\ offline_screen = FALSE
    /\ serving = 0
    /\ listening = 0
    /\ browser = ""
    /\ checked = "none"
    /\ before = "none"
    /\ done = <<>>
    /\ checks = 0
    /\ runs = 0
    /\ starts = 0

\* the touchscreen monitor is not running
TouchIdle ==
    /\ touch_pc = "off"
    /\ failure_count = 0
    /\ last_reset_time = 0
    /\ clock = 0
    /\ log = <<>>
    /\ resets = <<>>

\* no setup wizard is running
WizardIdle ==
    /\ wizard_pc = "off"
    /\ step = 0
    /\ wizard_url = ""
    /\ error_message = ""
    /\ result_url = ""
    /\ done_event = FALSE
    /\ config = ""
    /\ hpc = <<>>
    /\ form_url = ""
    /\ done_step = 0
    /\ returned_url = ""

\* the portable-kiosk launcher is not running
PortableIdle ==
    /\ ppc = "off"
    /\ pconfig = <<>>
    /\ stale = 0
    /\ launched = <<>>
    /\ pinged = "none"
    /\ setups = 0
    /\ answer = <<>>

\* no manual setup server is running
SetupIdle ==
    /\ setup_pc = "off"
    /\ result = <<>>
    /\ setup_event = FALSE
    /\ saved_config = <<>>
    /\ post_pc = <<>>
    /\ form = <<>>
    /\ accepted = <<>>
    /\ setup_result = <<>>

\* this launcher alone
LaunchIdle == CacheIdle /\ TimeIdle /\ MdnsIdle

Init ==
    /\ MainInit
    /\ LaunchIdle
    /\ ClientIdle
    /\ TouchIdle
    /\ WizardIdle
    /\ PortableIdle
    /\ SetupIdle

\* --------------------------------------------------------- shared fragments

\* An exception nothing catches leaves main(): the process ends.
Raise(site) ==
    /\ pc' = "crashed"
    /\ raised' = site

\* launch_chromium(d)
LaunchChromium(d) ==
    /\ display' = d
    /\ issued' = Append(issued, d)

\* get_server_ip returns (i, g, k, t) to main(), line 261.
Return(src, i, g, k, t) ==
    /\ ip' = i /\ gateway_port' = g /\ kiosk_port' = k /\ token' = t
    /\ candidate' = [source |-> src, ip |-> i, kiosk_port |-> k, token |-> t]
    /\ pc' = "validate"

\* -------------------------------------------------- decisions of the code

\* Fallback with the cache consulted before the sweep.
Fallback_CacheBeforeScan(s) ==
    CASE s = "mdns" -> "resolve"
      [] s = "resolve" -> "cache"
      [] s = "scan" -> "cache"
      [] s = "requery" -> "cache"

\* get_server_ip, lines 156-197: the strategy that runs when strategy s gave
\* no server ("requery" is the second query of the sweep's hit).
Fallback(s) ==
    CASE s = "mdns" -> "resolve"
      [] s = "resolve" -> "scan"
      [] s = "scan" -> "cache"
      [] s = "requery" -> "cache"

\* ScanDone with the last host left out.
ScanDone_OneShort(i) == i >= MaxHost

\* discover_server_http_scan, line 132: for i in range(1, 255)
ScanDone(i) == i > MaxHost

\* ZoneConfigured with the check left out.
ZoneConfigured_Always(z) == TRUE

\* line 249: if not zone
ZoneConfigured(z) == z # ""

\* line 263: if ip and kiosk_port
Found(i, k) == i # NoIp /\ k # 0

\* NeedsValidation with every candidate re-queried.
NeedsValidation_Always(t) == TRUE

\* line 265: if token
NeedsValidation(t) == t # ""

\* Unpinned with the host kept.
Unpinned_Keep(cur) == cur

\* lines 295 and 301: current_ip = None
Unpinned(cur) == NoIp

\* SleepFor with the backoff delay slept in every iteration.
SleepFor_AlwaysBackoff(cur, b) == b

\* Mutant: the token comparison is left out.
TokenValidated_AnyToken(r, t) == r.kind = "ok"

\* line 269: response.status_code == 200 and response.json().get("token") == token
TokenValidated(r, t) == r.kind = "ok" /\ r.token = t

\* Mutant: every HTTP answer counts as healthy.
ServerHealthy_AnyStatus(h) == h # "error"

\* check_server_health, line 209: response.status_code == 200
ServerHealthy(h) == h = "200"

\* Mutant: every confirmation is treated as a change of address.
IpChanged_Always(i, cur) == TRUE

\* line 279: if ip != current_ip
IpChanged(i, cur) == i # cur

\* OfflineDue with the offline page shown after every failed iteration.
OfflineDue_Always(cur) == TRUE

\* Mutant: the offline page is never shown.
OfflineDue_Never(cur) == FALSE

\* lines 292, 298: if current_ip
OfflineDue(cur) == cur # NoIp

\* Mutant: success does not reset the backoff.
ResetBackoff_Keep(b) == b

\* line 289: backoff_delay = 1
ResetBackoff(b) == BACKOFF_MIN

\* Mutant: the cap is left out.
NextBackoff_NoCap(b) == b * BACKOFF_MULTIPLIER

\* line 307: backoff_delay = min(backoff_delay * 2, 30)
NextBackoff(b) == Min(b * BACKOFF_MULTIPLIER, BACKOFF_MAX)

\* SleepFor with the backoff delay multiplied before the sleep.
SleepFor_AfterDoubling(cur, b) ==
    IF cur = NoIp THEN Min(b * BACKOFF_MULTIPLIER, BACKOFF_MAX) ELSE POLL_INTERVAL

\* lines 303-310: the duration of the sleep that ends the iteration
SleepFor(cur, b) == IF cur = NoIp THEN b ELSE POLL_INTERVAL

\* ------------------------------------------------------- the environment

\* The server of the settled network: it announces itself over mDNS, confirms
\* its token on /discover and answers /health with 200, and the cache file
\* is writable.
SteadyServer == [ip |-> 1, kiosk_port |-> DEFAULT_KIOSK_PORT + 1, token |-> "abc"]

SteadyAnswer ==
    [kind |-> "ok", role |-> "main-server",
     kioskPort |-> SteadyServer.kiosk_port, token |-> SteadyServer.token]

\* what the mDNS browse, the validation re-query and the health probe can be
\* answered with
MdnsHosts == IF steady THEN {SteadyServer.ip} ELSE Hosts
MdnsAnswers == IF steady THEN {SteadyAnswer} ELSE Announcements
ValidationAnswers == IF steady THEN {SteadyAnswer} ELSE DiscoverResponses
HealthAnswers == IF steady THEN {"200"} ELSE HealthOutcomes

\* ------------------------------------------------------------------ main()

\* lines 248-258
MainStart ==
    /\ pc = "start"
    /\ IF ~ZoneConfigured(zone)
       THEN /\ LaunchChromium(ShowOffline)
            /\ pc' = "exited"
       ELSE /\ pc' = "mdns"
            /\ UNCHANGED <<display, issued>>
    /\ UNCHANGED <<zone, steady, others, rresp, current_ip, backoff_delay, cache, locals, scan_i, raised,
                   candidate, vresp, probe, prev_ip, prev_display, saved,
                   outcome, tried, queried, probed, slept>>

\* ---------------------------------------------------------- get_server_ip

\* lines 156-158 with discover_server_mdns (67-92) and ServerListener (22-41):
\* the bounded wait ends with an announcement or without one, and the listener
\* keeps only a main-server announcement.  The TXT record's kioskPort goes
\* through int(), which raises ValueError on a value that is no number.
DiscoverServerMdns ==
    /\ pc = "mdns"
    /\ \/ \E h \in MdnsHosts, a \in MdnsAnswers :
             /\ tried' = Append(tried, [s |-> "mdns", role |-> RoleOf(a)])
             /\ IF IsMainAnnouncement(a)
                THEN Return("mdns", h, DISCOVERY_PORT, KioskPortOf(a), a.token)
                ELSE /\ pc' = Fallback("mdns")
                     /\ UNCHANGED <<locals, candidate>>
             /\ UNCHANGED raised
       \/ /\ ~steady
          /\ Raise("mdns")
          /\ UNCHANGED <<locals, candidate, tried>>
    /\ UNCHANGED <<zone, steady, others, rresp, current_ip, backoff_delay, cache, display, scan_i,
                   vresp, probe, prev_ip, prev_display, issued, saved, queried,
                   outcome, probed, slept>>

\* lines 160-174: socket.gethostbyname('mainserver.local'), then GET /discover
\* on the resolved host inside try/except RequestException.
ResolveMainserver ==
    /\ pc = "resolve"
    /\ \/ /\ pc' = Fallback("resolve")          \* socket.gaierror
          /\ tried' = Append(tried, [s |-> "resolve", role |-> ""])
          /\ UNCHANGED <<locals, candidate, raised>>
       \/ \E h \in Hosts, r \in DiscoverResponses :
             IF r.kind = "nonobject"
             THEN /\ Raise("resolve")
                  /\ UNCHANGED <<locals, candidate, tried>>
             ELSE /\ tried' = Append(tried, [s |-> "resolve", role |-> RoleOf(r)])
                  /\ IF ~IsRequestException(r) /\ IsMainServer(r)
                     THEN Return("resolve", h, DISCOVERY_PORT, KioskPortOf(r), r.token)
                     ELSE /\ pc' = Fallback("resolve")
                          /\ UNCHANGED <<locals, candidate>>
                  /\ UNCHANGED raised
    /\ scan_i' = 1
    /\ UNCHANGED <<zone, steady, others, rresp, current_ip, backoff_delay, cache, display,
                   vresp, probe, prev_ip, prev_display, issued, saved, queried,
                   outcome, probed, slept>>

\* discover_server_http_scan, lines 111-147: one host per step, in ascending
\* order; get_local_ip() may fail before the first host.
DiscoverServerHttpScan ==
    /\ pc = "scan"
    /\ \/ /\ scan_i = 1                         \* get_local_ip() returned None
          /\ tried' = Append(tried, [s |-> "scan", role |-> ""])
          /\ pc' = Fallback("scan")
          /\ UNCHANGED <<locals, scan_i, raised, queried>>
       \/ /\ ~ScanDone(scan_i)
          /\ \E r \in DiscoverResponses :
                IF r.kind = "nonobject"
                THEN /\ Raise("scan")
                     /\ UNCHANGED <<locals, scan_i, tried, queried>>
                ELSE /\ queried' = Append(queried, [host |-> scan_i, role |-> RoleOf(r)])
                     /\ IF IsMainServer(r)
                        THEN /\ ip' = scan_i    \* return ip_to_check, gatewayPort
                             /\ gateway_port' = DISCOVERY_PORT
                             /\ tried' = Append(tried, [s |-> "scan", role |-> RoleOf(r)])
                             /\ pc' = "requery"
                             /\ UNCHANGED <<kiosk_port, token, scan_i, raised>>
                        ELSE /\ scan_i' = scan_i + 1
                             /\ UNCHANGED <<pc, locals, raised, tried>>
       \/ /\ ScanDone(scan_i)                   \* line 147: return None, None
          /\ tried' = Append(tried, [s |-> "scan", role |-> ""])
          /\ pc' = Fallback("scan")
          /\ UNCHANGED <<locals, scan_i, raised, queried>>
    /\ UNCHANGED <<zone, steady, others, rresp, current_ip, backoff_delay, cache, display,
                   candidate, vresp, probe, prev_ip, prev_display, issued,
                   saved, outcome, probed, slept>>

\* lines 179-186: the second GET /discover on the swept host, outside any try.
RequeryScanHit ==
    /\ pc = "requery"
    /\ \E r \in DiscoverResponses :
          /\ rresp' = r
          /\ IF IsRequestException(r) \/ r.kind = "nonobject"
             THEN /\ Raise("requery")
                  /\ UNCHANGED <<locals, candidate, tried>>
             ELSE /\ tried' = Append(tried, [s |-> "requery", role |-> RoleOf(r)])
                  /\ IF IsMainServer(r)
                     THEN Return("scan", ip, gateway_port, KioskPortOf(r), r.token)
                     ELSE /\ pc' = Fallback("requery")
                          /\ UNCHANGED <<locals, candidate>>
                  /\ UNCHANGED raised
    /\ UNCHANGED <<zone, steady, others, current_ip, backoff_delay, cache, display, scan_i,
                   vresp, probe, prev_ip, prev_display, issued, saved, queried,
                   outcome, probed, slept>>

\* lines 188-197: only FileNotFoundError and json.JSONDecodeError are caught.
ReadCache ==
    /\ pc = "cache"
    /\ IF cache.kind \in {"absent", "badjson"}
       THEN /\ Return("none", NoIp, 0, 0, "")
            /\ tried' = Append(tried, [s |-> "cache", role |-> cache.kind])
            /\ UNCHANGED raised
       ELSE IF cache.kind \in {"unreadable", "nonobject"}
       THEN /\ Raise("cache")
            /\ UNCHANGED <<locals, candidate, tried>>
       ELSE /\ Return("cache", cache.ip, DISCOVERY_PORT, cache.kioskPort, "")
            /\ tried' = Append(tried, [s |-> "cache", role |-> cache.kind])
            /\ UNCHANGED raised
    /\ UNCHANGED <<zone, steady, others, rresp, current_ip, backoff_delay, cache, display, scan_i,
                   vresp, probe, prev_ip, prev_display, issued, saved, queried,
                   outcome, probed, slept>>

\* ----------------------------------------------------------- main(), loop

\* lines 263 (false) and 296-301: server not found.
ServerNotFound ==
    /\ pc = "validate"
    /\ ~Found(ip, kiosk_port)
    /\ IF OfflineDue(current_ip)
       THEN LaunchChromium(ShowOffline)
       ELSE UNCHANGED <<display, issued>>
    /\ current_ip' = Unpinned(current_ip)
    /\ outcome' = "notfound"
    /\ pc' = "sleep"
    /\ tried' = <<>> /\ queried' = <<>>
    /\ rresp' = NoResponse
    /\ UNCHANGED <<zone, steady, others, backoff_delay, cache, locals, scan_i, raised,
                   candidate, vresp, probe, prev_ip, prev_display, saved, probed, slept>>

\* lines 263-276: the validation re-query when the candidate carries a token.
ValidateToken ==
    /\ pc = "validate"
    /\ Found(ip, kiosk_port)
    /\ IF NeedsValidation(token)
       THEN \E r \in ValidationAnswers :
               /\ vresp' = r
               /\ IF IsRequestException(r)          \* lines 274-276
                  THEN ip' = NoIp /\ pc' = "health" /\ UNCHANGED raised
                  ELSE IF r.kind = "nonobject"      \* .get of a non-dict
                  THEN Raise("validate") /\ UNCHANGED ip
                  ELSE IF TokenValidated(r, token)
                  THEN UNCHANGED <<ip, raised>> /\ pc' = "health"
                  ELSE ip' = NoIp /\ pc' = "health" /\ UNCHANGED raised
       ELSE /\ pc' = "health"
            /\ UNCHANGED <<ip, vresp, raised>>
    /\ tried' = <<>> /\ queried' = <<>>
    /\ rresp' = NoResponse
    /\ UNCHANGED <<zone, steady, others, current_ip, backoff_delay, cache, display, gateway_port,
                   kiosk_port, token, scan_i, candidate, probe, prev_ip, prev_display, issued,
                   saved, outcome, probed, slept>>

\* lines 290-295: the candidate was rejected or is unhealthy.
ServerUnhealthy ==
    /\ IF OfflineDue(current_ip)
       THEN LaunchChromium(ShowOffline)
       ELSE UNCHANGED <<display, issued>>
    /\ current_ip' = Unpinned(current_ip)
    /\ outcome' = IF ip = NoIp THEN "rejected" ELSE "unhealthy"
    /\ pc' = "sleep"
    /\ UNCHANGED backoff_delay

\* line 278 with check_server_health (199-217): `ip and ...` probes only a
\* candidate that is still set; a 200 leads to lines 279-289.
CheckServerHealth ==
    /\ pc = "health"
    /\ IF ip = NoIp
       THEN /\ ServerUnhealthy
            /\ UNCHANGED <<probe, probed>>
       ELSE \E h \in HealthAnswers :
               /\ probe' = h
               /\ probed' = [ip |-> ip, port |-> kiosk_port]
               /\ IF ServerHealthy(h)
                  THEN /\ outcome' = "healthy"
                       /\ IF IpChanged(ip, current_ip)
                          THEN /\ pc' = "save"
                               /\ UNCHANGED <<current_ip, backoff_delay, display, issued>>
                          ELSE /\ backoff_delay' = ResetBackoff(backoff_delay)
                               /\ pc' = "sleep"
                               /\ UNCHANGED <<current_ip, display, issued>>
                  ELSE ServerUnhealthy
    /\ UNCHANGED <<zone, steady, others, rresp, cache, locals, scan_i, raised, candidate, vresp,
                   prev_ip, prev_display, saved, tried, queried, slept>>

\* lines 281-284: pin the host, then open(CACHE_PATH, "w") and json.dump, with
\* no exception handler.  open may fail (the file is left as it was) and the
\* write may fail after open truncated the file.
SaveCache ==
    /\ pc = "save"
    /\ current_ip' = ip
    /\ saved' = TRUE
    /\ \/ /\ cache' = CacheObject(ip, kiosk_port)
          /\ pc' = "launch"
          /\ UNCHANGED raised
       \/ /\ ~steady
          /\ Raise("save")
          /\ UNCHANGED cache
       \/ /\ ~steady
          /\ Raise("save")
          /\ cache' = BrokenCache("badjson")
    /\ UNCHANGED <<zone, steady, others, rresp, backoff_delay, display, locals, scan_i, candidate,
                   vresp, probe, prev_ip, prev_display, issued, outcome, tried,
                   queried, probed, slept>>

\* lines 286-289
LaunchKiosk ==
    /\ pc = "launch"
    /\ LaunchChromium(ShowUrl(ip, kiosk_port, zone))
    /\ backoff_delay' = ResetBackoff(backoff_delay)
    /\ pc' = "sleep"
    /\ UNCHANGED <<zone, steady, others, rresp, current_ip, cache, locals, scan_i, raised, candidate,
                   vresp, probe, prev_ip, prev_display, saved, outcome, tried,
                   queried, probed, slept>>

\* lines 303-310, then line 261 of the next iteration.  The locals of the
\* iteration are dead from here on (line 261 reassigns all four).
Sleep ==
    /\ pc = "sleep"
    /\ slept' = SleepFor(current_ip, backoff_delay)
    /\ backoff_delay' = IF current_ip = NoIp
                        THEN NextBackoff(backoff_delay)
                        ELSE backoff_delay
    /\ pc' = "mdns"
    /\ ip' = NoIp /\ gateway_port' = 0 /\ kiosk_port' = 0 /\ token' = ""
    /\ scan_i' = 0
    /\ candidate' = NoCandidate
    /\ vresp' = NoResponse
    /\ probe' = "none"
    /\ prev_ip' = current_ip
    /\ prev_display' = display
    /\ issued' = <<>>
    /\ saved' = FALSE
    /\ probed' = NoTarget
    /\ UNCHANGED <<zone, steady, others, rresp, current_ip, cache, display, raised, outcome, callhist>>

Next ==
    \/ MainStart
    \/ DiscoverServerMdns
    \/ ResolveMainserver
    \/ DiscoverServerHttpScan
    \/ RequeryScanHit
    \/ ReadCache
    \/ ServerNotFound
    \/ ValidateToken
    \/ CheckServerHealth
    \/ SaveCache
    \/ LaunchKiosk
    \/ Sleep

Spec == Init /\ [][Next]_vars

\* The network settles between two iterations of the loop and stays settled.
Settle ==
    /\ pc = "mdns"
    /\ ~steady
    /\ steady' = TRUE
    /\ UNCHANGED <<others, pc, zone, current_ip, backoff_delay, cache, display, locals,
                   scan_i, raised, candidate, vresp, probe, prev_ip, prev_display,
                   issued, saved, probed, rresp, tried, queried, outcome, slept>>

LiveNext == Next \/ Settle

\* Every call main() makes returns within its timeout (2 s browse, 0.1 s, 2 s
\* and 5 s requests, the sleeps of at most 30 s), so the loop keeps stepping.
LiveSpec == Init /\ [][LiveNext]_vars /\ WF_vars(Next)

\* ---------------------------------------- the cache file and two processes

\* One controller is at its cache write (lines 283-284) while a second
\* process has started and reached the cache read of get_server_ip (lines
\* 189-195).  main() itself is not running in this specification.
MainIdle == MainInit /\ zone = "" /\ cache = BrokenCache("absent")

\* open(CACHE_PATH, "w") has truncated the file and nothing is flushed yet
Truncated == BrokenCache("empty")

CacheInit ==
    /\ file \in CacheContents
    /\ old = file
    /\ entry \in {CacheObject(i, p) : i \in Hosts, p \in KioskPorts}
    /\ wpc = "open"
    /\ rpc = "read"
    /\ seen = BrokenCache("absent")

\* line 283: open(CACHE_PATH, "w") truncates the file, or raises and leaves it
WriterOpen ==
    /\ wpc = "open"
    /\ \/ file' = Truncated /\ wpc' = "dump"
       \/ wpc' = "raised" /\ UNCHANGED file
    /\ UNCHANGED <<mainvars, morevars, timevars, mdnsvars, old, entry, rpc, seen>>

\* line 284 and the end of the with block: json.dump fills the buffer of f,
\* closing f flushes it to the file; an OSError leaves the file as it is
WriterDump ==
    /\ wpc = "dump"
    /\ \/ file' = entry /\ wpc' = "closed"
       \/ wpc' = "raised" /\ UNCHANGED file
    /\ UNCHANGED <<mainvars, morevars, timevars, mdnsvars, old, entry, rpc, seen>>

\* lines 190-191: the starting process opens the file and json.load reads it
ReaderLoad ==
    /\ rpc = "read"
    /\ seen' = file
    /\ rpc' = "done"
    /\ UNCHANGED <<mainvars, morevars, timevars, mdnsvars, file, old, entry, wpc>>

CacheNext == WriterOpen \/ WriterDump \/ ReaderLoad

CacheSpecInit ==
    /\ MainIdle
    /\ CacheInit
    /\ TimeIdle
    /\ MdnsIdle
    /\ ClientIdle
    /\ TouchIdle
    /\ WizardIdle
    /\ PortableIdle
    /\ SetupIdle

CacheSpec == CacheSpecInit /\ [][CacheNext]_vars

\* ------------------------------------------- the duration of get_server_ip

\* One call of get_server_ip (lines 151-197) with the time its network
\* operations take: each is answered at once or runs to its timeout.  What
\* the answers carry is left out; the sweep has its real range.
\* socket.gethostbyname, get_local_ip and the file read take no time here.
TimeInit ==
    /\ tpc = "mdns"
    /\ thost = 1
    /\ telapsed = 0

\* lines 156-158: listener.event.wait(timeout=2) ends early on a main-server
\* announcement, else after 2 s
TimeMdns ==
    /\ tpc = "mdns"
    /\ \/ \E d \in {0, MDNS_WAIT} :
             telapsed' = telapsed + d /\ tpc' = "returned"
       \/ telapsed' = telapsed + MDNS_WAIT /\ tpc' = "resolve"
    /\ UNCHANGED <<mainvars, morevars, cachevars, mdnsvars, thost>>

\* lines 161-174: gethostbyname, then GET /discover with timeout=2
TimeResolve ==
    /\ tpc = "resolve"
    /\ \/ UNCHANGED telapsed /\ tpc' \in {"returned", "scan"}
       \/ telapsed' = telapsed + QUERY_TIMEOUT /\ tpc' = "scan"
    /\ UNCHANGED <<mainvars, morevars, cachevars, mdnsvars, thost>>

\* lines 115-147: no local address, or one GET per host with timeout=0.1
TimeScan ==
    /\ tpc = "scan"
    /\ \/ /\ thost = 1                        \* get_local_ip() returned None
          /\ tpc' = "cache"
          /\ UNCHANGED <<thost, telapsed>>
       \/ /\ thost <= SCAN_LAST                \* answered at once
          /\ \/ tpc' = "requery" /\ UNCHANGED thost
             \/ thost' = thost + 1 /\ UNCHANGED tpc
          /\ UNCHANGED telapsed
       \/ /\ thost <= SCAN_LAST                \* timed out
          /\ telapsed' = telapsed + SCAN_TIMEOUT
          /\ thost' = thost + 1
          /\ UNCHANGED tpc
       \/ /\ thost > SCAN_LAST                 \* line 147
          /\ tpc' = "cache"
          /\ UNCHANGED <<thost, telapsed>>
    /\ UNCHANGED <<mainvars, morevars, cachevars, mdnsvars>>

\* lines 181-186: GET /discover with timeout=2, outside any try
TimeRequery ==
    /\ tpc = "requery"
    /\ \/ UNCHANGED telapsed /\ tpc' \in {"returned", "cache"}
       \/ telapsed' = telapsed + QUERY_TIMEOUT /\ tpc' = "raised"
    /\ UNCHANGED <<mainvars, morevars, cachevars, mdnsvars, thost>>

\* lines 189-197
TimeCache ==
    /\ tpc = "cache"
    /\ tpc' = "returned"
    /\ UNCHANGED <<mainvars, morevars, cachevars, mdnsvars, thost, telapsed>>

TimeNext == TimeMdns \/ TimeResolve \/ TimeScan \/ TimeRequery \/ TimeCache

TimeSpecInit ==
    /\ MainIdle
    /\ CacheIdle
    /\ TimeInit
    /\ MdnsIdle
    /\ ClientIdle
    /\ TouchIdle
    /\ WizardIdle
    /\ PortableIdle
    /\ SetupIdle

TimeSpec == TimeSpecInit /\ [][TimeNext]_vars

\* ------------------------------------------- the listener and its waiter

\* discover_server_mdns (67-92) waiting on the event while zeroconf's thread
\* calls add_service and remove_service (22-41).  Both callbacks and the
\* read of server_info hold listener.lock, so each is one step.
Services == {"main", "kiosk"}

\* the TXT record of a service of type _eform._tcp.local.
AnnouncementOf(n) ==
    [kind |-> "ok", role |-> (IF n = "main" THEN "main-server" ELSE "other"),
     kioskPort |-> -1, token |-> ""]

MdnsInit ==
    /\ server_info = ""
    /\ event = FALSE
    /\ mpc = "wait"
    /\ woke = ""
    /\ mresult = ""
    /\ callbacks = <<>>

\* zeroconf delivers callbacks until zeroconf.close() (lines 87, 91)
Browsing == mpc \in {"wait", "woken"} /\ Len(callbacks) < MaxCallbacks

\* lines 33-41; get_service_info may return None
add_service ==
    /\ Browsing
    /\ \E n \in Services, info \in BOOLEAN :
          /\ callbacks' = Append(callbacks, [op |-> "add", name |-> n, info |-> info])
          /\ IF info /\ IsMainAnnouncement(AnnouncementOf(n))
             THEN server_info' = n /\ event' = TRUE
             ELSE UNCHANGED <<server_info, event>>
    /\ UNCHANGED <<mainvars, morevars, cachevars, timevars, mpc, woke, mresult>>

\* lines 28-31: whatever service was removed, server_info becomes None
remove_service ==
    /\ Browsing
    /\ \E n \in Services :
          callbacks' = Append(callbacks, [op |-> "remove", name |-> n, info |-> FALSE])
    /\ server_info' = ""
    /\ UNCHANGED <<mainvars, morevars, cachevars, timevars, event, mpc, woke, mresult>>

\* line 76: listener.event.wait(timeout=2) returns when the event is set or
\* after 2 s
EventWait ==
    /\ mpc = "wait"
    /\ woke' = (IF event THEN "event" ELSE "timeout")
    /\ mpc' = "woken"
    /\ UNCHANGED <<mainvars, morevars, cachevars, timevars, server_info, event, mresult,
                   callbacks>>

\* lines 78-92: under the lock, return the server or None
ReadServerInfo ==
    /\ mpc = "woken"
    /\ mresult' = (IF server_info # "" THEN server_info ELSE "none")
    /\ mpc' = "done"
    /\ UNCHANGED <<mainvars, morevars, cachevars, timevars, server_info, event, woke,
                   callbacks>>

MdnsNext == add_service \/ remove_service \/ EventWait \/ ReadServerInfo

MdnsSpecInit ==
    /\ MainIdle
    /\ CacheIdle
    /\ TimeIdle
    /\ MdnsInit
    /\ ClientIdle
    /\ TouchIdle
    /\ WizardIdle
    /\ PortableIdle
    /\ SetupIdle

MdnsSpec == MdnsSpecInit /\ [][MdnsNext]_vars

\* ------------------------------------------------------------------ claims

\* The candidate of this iteration carries a token.
HasToken == candidate.token # ""

\* The validation re-query was answered (in any way).
Requeried == vresp.kind # "none"

\* The re-query answered 200 with the claimed token.
Confirmed == vresp.kind = "ok" /\ vresp.token = candidate.token

\* The re-query answered 200 with a JSON object whose token differs.
Mismatch == HasToken /\ vresp.kind = "ok" /\ vresp.token # candidate.token

\* The candidate passed validation: no token, or the token was confirmed.
PassedValidation == candidate.ip # NoIp /\ (~HasToken \/ Confirmed)

UrlIssued == \E n \in 1..Len(issued) : issued[n].kind = "url"

CandidateUrl == ShowUrl(candidate.ip, candidate.kiosk_port, zone)

\* C1: a candidate with a token whose re-query returns another token is never
\* trusted in that iteration: it is not health-probed, current_ip is not set
\* to it (it keeps its value of the iteration's start until it is cleared, and
\* is cleared at the iteration's end), the cache is not written and no
\* showUrl is issued.
C1_MismatchNeverTrusted ==
    Mismatch =>
        /\ probe = "none"
        /\ current_ip \in {NoIp, prev_ip}
        /\ (pc = "sleep" => current_ip = NoIp)
        /\ ~saved
        /\ ~UrlIssued

C1_Witness ==
    /\ Mismatch
    /\ pc = "sleep"
    /\ prev_ip = candidate.ip
    /\ outcome = "rejected"

\* C2: current_ip is set only by an iteration whose candidate passed validation
\* (no token, or the re-queried token is equal) and whose health probe of the
\* candidate's host and kioskPort answered 200, whatever strategy produced the
\* candidate, the cache fallback included; and whenever an iteration ends with a
\* pinned server, that iteration validated and probed it.
C2_PinnedOnlyAfterValidationAndHealth ==
    /\ [](pc \in {"health", "save", "launch", "sleep"} =>
            /\ kiosk_port = candidate.kiosk_port
            /\ ip \in {NoIp, candidate.ip})
    /\ []((current_ip # NoIp /\ (pc = "sleep" \/ current_ip # prev_ip)) =>
            /\ current_ip = candidate.ip
            /\ PassedValidation
            /\ probe = "200")
    /\ [][(current_ip' # current_ip /\ current_ip' # NoIp) =>
            /\ current_ip' = candidate.ip
            /\ PassedValidation
            /\ probe = "200"]_vars

C2_Witness ==
    /\ pc = "sleep"
    /\ current_ip # NoIp
    /\ candidate.source = "cache"
    /\ probe = "200"

\* C3: with a token, every answer to the re-query other than 200 with the
\* claimed token rejects the candidate: it is discarded, main() goes on to the
\* sleep with backoff and to the next iteration.
C3_EveryOtherAnswerRejects ==
    (HasToken /\ Requeried /\ ~Confirmed) =>
        /\ pc \in {"health", "sleep"}
        /\ ip = NoIp
        /\ (pc = "sleep" => outcome = "rejected" /\ current_ip = NoIp)

\* C4: 1 <= backoff_delay <= 30 in every state; backoff_delay decreases only
\* by the reset to 1 of an iteration whose health probe answered 200 (so it is
\* non-decreasing over failed iterations); and after an iteration whose health
\* confirmation succeeded it is 1.
C4_BackoffBounds ==
    /\ [](BACKOFF_MIN <= backoff_delay /\ backoff_delay <= BACKOFF_MAX)
    /\ []((pc = "sleep" /\ probe = "200") => backoff_delay = BACKOFF_MIN)
    /\ []((pc = "mdns" /\ current_ip # NoIp) => backoff_delay = BACKOFF_MIN)
    /\ [][backoff_delay' < backoff_delay =>
            (backoff_delay' = BACKOFF_MIN /\ probe' = "200")]_vars

C4_Witness ==
    /\ pc = "sleep"
    /\ probe = "200"
    /\ prev_ip = NoIp
    /\ slept = BACKOFF_MAX
    /\ backoff_delay = BACKOFF_MIN

\* The iteration failed: the locator gave no usable candidate, the re-query did
\* not confirm the token, or the health probe did not answer 200.
NotFoundInput == candidate.ip = NoIp \/ candidate.kiosk_port = 0

RejectedInput == ~NotFoundInput /\ HasToken /\ Requeried /\ ~Confirmed

UnhealthyInput == probe \notin {"none", "200"}

\* C5: an iteration that ends not found, rejected or unhealthy (as decided by
\* what the locator, the re-query and the probe answered) replaces
\* backoff_delay by min(2 * backoff_delay, 30) after sleeping the old value, an
\* iteration ends that way exactly when it leaves no server pinned, and the
\* values are 1, 2, 4, 8, 16, 30, 30, ...; a rejection after a success takes it
\* from 1 to 2.
C5_BackoffDoubling ==
    /\ [](backoff_delay \in {1, 2, 4, 8, 16, 30})
    /\ [](pc = "sleep" =>
            /\ (outcome = "notfound" <=> NotFoundInput)
            /\ (outcome = "rejected" <=> RejectedInput)
            /\ (outcome = "unhealthy" <=> UnhealthyInput))
    /\ [](pc = "sleep" =>
            (outcome \in {"notfound", "rejected", "unhealthy"} <=> current_ip = NoIp))
    /\ [][(pc = "sleep" /\ outcome \in {"notfound", "rejected", "unhealthy"}) =>
            /\ backoff_delay' = (IF backoff_delay = 16 \/ backoff_delay = 30
                                 THEN 30 ELSE 2 * backoff_delay)
            /\ slept' = backoff_delay]_vars

C5_Witness ==
    /\ pc = "mdns"
    /\ outcome = "rejected"
    /\ display = ShowOffline
    /\ slept = 1
    /\ backoff_delay = 2

\* C6: a showUrl is issued exactly once by every iteration whose
\* health-confirmed host differs from the host pinned at its start, whether the
\* iteration runs to its sleep or is ended by an exception, and none is issued
\* by an iteration that re-confirms the pinned host.
C6_ReloadOncePerChange ==
    /\ (pc \in {"sleep", "crashed"} /\ probe = "200" /\ candidate.ip # prev_ip)
          => issued = <<CandidateUrl>>
    /\ (pc = "sleep" /\ probe = "200" /\ candidate.ip = prev_ip)
          => issued = <<>>

\* C7: showUrl is never issued for the URL that the last directive already
\* showed: a showUrl always changes what is displayed.
C7_NoRepeatedShowUrl ==
    [][(Len(issued') > Len(issued) /\ display'.kind = "url") => display' # display]_vars

C7_Witness ==
    /\ pc = "sleep"
    /\ prev_ip # NoIp
    /\ issued = <<CandidateUrl>>
    /\ display = CandidateUrl

\* C8: the controller executes the cache write exactly in the step that follows
\* a health probe answering 200 for a validated candidate whose host differs
\* from the host pinned at the iteration's start; no other step changes the
\* file, and an iteration that rejects the candidate, finds it unhealthy or
\* re-confirms the pinned host executes no write.  A write that does not raise
\* leaves the candidate's host and kioskPort in the file.
C8_CacheWrittenIffFreshPin ==
    /\ []((saved /\ pc \in {"launch", "sleep"}) =>
            cache = CacheObject(candidate.ip, candidate.kiosk_port))
    /\ [](saved => (PassedValidation /\ probe = "200" /\ candidate.ip # prev_ip))
    /\ []((pc \in {"launch", "sleep", "crashed"} /\ probe = "200"
              /\ candidate.ip # prev_ip) => saved)
    /\ []((pc = "sleep" /\ (outcome # "healthy" \/ candidate.ip = prev_ip)) => ~saved)
    /\ [][(cache' # cache \/ saved' # saved) =>
            \/ (pc = "save" /\ probe = "200" /\ saved')
            \/ (pc = "sleep" /\ cache' = cache /\ ~saved')]_vars

C8_Witness ==
    /\ pc = "launch"
    /\ saved
    /\ prev_ip # NoIp
    /\ cache = CacheObject(candidate.ip, candidate.kiosk_port)

\* C9: once a zone is configured, main() is never ended by an exception and
\* never returns.
C9_LoopNeverTerminates ==
    zone # "" => (pc \notin {"crashed", "exited"} /\ raised = "")

\* C10: reading the cache never raises, and a cache that gives no usable entry
\* (no ip or no kioskPort) ends the iteration as not found.
C10_CacheReadNeverRaises ==
    /\ raised # "cache"
    /\ (pc = "sleep" /\ candidate.source \in {"none", "cache"}
           /\ (candidate.ip = NoIp \/ candidate.kiosk_port = 0))
          => outcome = "notfound"

\* ---------------------------------------------------------------------------
\* The locator: one call of get_server_ip.

LiveStrategies == {"mdns", "resolve", "scan", "requery"}

\* entry n of the call history is a live strategy that found a main-server
Hit(n) == tried[n].s \in LiveStrategies /\ tried[n].role = "main-server"

\* the call of get_server_ip has returned and main() holds its result
Returned == pc = "validate"

\* the strategy that may follow entry n: the next one in the fixed order when
\* entry n found nothing, the sweep's second query when the sweep hit a host
FollowsInOrder(n) ==
    CASE tried[n].s = "mdns" -> ~Hit(n) /\ tried[n + 1].s = "resolve"
      [] tried[n].s = "resolve" -> ~Hit(n) /\ tried[n + 1].s = "scan"
      [] tried[n].s = "scan" ->
            tried[n + 1].s = (IF Hit(n) THEN "requery" ELSE "cache")
      [] tried[n].s = "requery" -> ~Hit(n) /\ tried[n + 1].s = "cache"
      [] tried[n].s = "cache" -> FALSE

ReadableCacheEntry == cache.kind = "object" /\ cache.ip # NoIp

\* C12: get_server_ip returns "not found" only if all four strategies failed:
\* when mDNS, name resolution or the subnet sweep found a main-server, or the
\* cache holds a readable entry, the call returns a candidate.
C12_NotFoundOnlyIfAllFailed ==
    Returned =>
       (((\E n \in 1..Len(tried) : Hit(n)) \/ ReadableCacheEntry)
           => candidate.ip # NoIp)

\* the step ran a live strategy and its answer did not carry role main-server
OtherRoleAnswered ==
    /\ Len(tried') = Len(tried) + 1
    /\ tried'[Len(tried')].s \in LiveStrategies
    /\ tried'[Len(tried')].role # "main-server"

\* C13: a candidate returned by a live strategy comes from an announcement or
\* a /discover answer with role main-server (for the sweep: both the sweep's
\* answer and the second query's); an announcement or a 200 answer with any
\* other role or none is not returned and leaves the listener's result unset,
\* so the call goes on to the next strategy.
C13_OnlyMainServerReturned ==
    /\ [](Returned /\ candidate.source \in {"mdns", "resolve"} =>
             /\ tried[Len(tried)].s = candidate.source
             /\ tried[Len(tried)].role = "main-server")
    /\ [](Returned /\ candidate.source = "scan" =>
             /\ tried[Len(tried)] = [s |-> "requery", role |-> "main-server"]
             /\ queried[Len(queried)] = [host |-> candidate.ip, role |-> "main-server"])
    /\ [][OtherRoleAnswered => ~Returned' /\ candidate' = NoCandidate]_vars

\* name resolution returned a main-server after an mDNS announcement with
\* another role had been passed over
C13_Witness ==
    /\ Returned
    /\ candidate.source = "resolve"
    /\ tried[1] = [s |-> "mdns", role |-> "other"]

\* C14: the sweep queries the hosts in ascending order from .1, stops at the
\* first host that answers 200 with role main-server without querying any
\* higher host, and reports "not found" only after every host of the range
\* was queried and none matched.
C14_SweepAscendingFirstMatch ==
    /\ \A n \in 1..Len(queried) : queried[n].host = n
    /\ \A n \in 1..(Len(queried) - 1) : queried[n].role # "main-server"
    /\ pc = "requery" =>
          queried[Len(queried)] = [host |-> ip, role |-> "main-server"]
    /\ \A n \in 1..Len(tried) :
          tried[n].s = "scan" =>
             IF Hit(n)
             THEN queried[Len(queried)].role = "main-server"
             ELSE queried # <<>> =>
                     /\ Len(queried) = MaxHost
                     /\ queried[MaxHost].role # "main-server"

\* the sweep stopped at its first host and the call went on without a
\* further query of the sweep
C14_Witness ==
    /\ Returned
    /\ Len(queried) = 1
    /\ queried[1].role = "main-server"
    /\ MaxHost > 1

\* the sweep reported not found after querying every host
C14_WitnessExhausted ==
    /\ pc = "cache"
    /\ Len(queried) = MaxHost
    /\ \A n \in 1..MaxHost : queried[n].role = "other"

\* ---------------------------------------------------------------------------
\* Validation and health of a candidate.

\* C15: a candidate of the cache fallback carries no token; a candidate
\* without token is accepted by the validation step without any re-query; the
\* health probe alone then decides whether it is pinned.
C15_TokenlessCandidateOnlyProbed ==
    /\ candidate.source = "cache" => ~HasToken
    /\ ~HasToken => ~Requeried
    /\ (pc = "health" /\ ~HasToken) => ip = candidate.ip
    /\ (pc \in {"save", "launch", "sleep"} /\ ~HasToken /\ ~NotFoundInput) =>
          /\ probed = [ip |-> candidate.ip, port |-> candidate.kiosk_port]
          /\ probe # "none"
          /\ probe = "200" => (pc = "save" \/ current_ip = candidate.ip)
          /\ probe # "200" => (pc = "sleep" /\ current_ip = NoIp)

\* a cached server was accepted without re-query and its probe failed
C15_Witness ==
    /\ pc = "sleep"
    /\ candidate.source = "cache"
    /\ ~NotFoundInput
    /\ probe = "500"

\* ---------------------------------------------------------------------------
\* The main loop while a server is pinned.

\* the step probes the pinned host and the probe fails
PinnedProbeFails ==
    /\ current_ip # NoIp
    /\ probe = "none"
    /\ probe' \notin {"none", "200"}
    /\ probed'.ip = current_ip

\* C16: when a server is pinned and the health check of that host fails, the
\* offline page is shown and the pin is dropped in the step of the failed
\* check itself, so before get_server_ip runs again; the loop then sleeps the
\* backoff delay.
C16_FailedCheckShowsOffline ==
    /\ [][PinnedProbeFails =>
             /\ display' = ShowOffline
             /\ issued' = Append(issued, ShowOffline)
             /\ current_ip' = NoIp
             /\ pc' = "sleep"]_vars
    /\ []((pc = "sleep" /\ prev_ip # NoIp /\ probed.ip = prev_ip /\ UnhealthyInput) =>
             /\ issued = <<ShowOffline>>
             /\ display = ShowOffline
             /\ current_ip = NoIp
             /\ tried = <<>>)
    /\ [][(pc = "sleep" /\ current_ip = NoIp) =>
             slept' = backoff_delay /\ pc' = "mdns"]_vars

\* the pinned host's probe failed and the offline page is up
C16_Witness ==
    /\ pc = "sleep"
    /\ prev_ip # NoIp
    /\ probed.ip = prev_ip
    /\ probe = "500"
    /\ display = ShowOffline

\* the iteration began with a server pinned, probed that host, and the probe
\* failed
PinnedHostFailedOnce ==
    /\ pc = "sleep"
    /\ prev_ip # NoIp
    /\ probed.ip = prev_ip
    /\ UnhealthyInput

BeganPinned ==
    /\ pc \in {"mdns", "resolve", "scan", "requery", "cache", "validate",
               "health", "save", "launch", "sleep"}
    /\ prev_ip # NoIp

\* the poll of a pinned server confirmed the pinned host
PinnedHostConfirmed ==
    /\ pc = "sleep"
    /\ prev_ip # NoIp
    /\ probed.ip = prev_ip
    /\ probe = "200"

\* what a confirmed poll leaves behind
PollKeepsPin ==
    PinnedHostConfirmed =>
       /\ current_ip = prev_ip
       /\ backoff_delay = BACKOFF_MIN
       /\ issued = <<>>
       /\ ~saved

SameRecordPinned == prev_ip # NoIp /\ prev_display = CandidateUrl

\* C19: after every successful health probe, if the confirmed candidate
\* differs from the pinned record in host or in kioskPort, the kiosk page of
\* the new record is loaded and the cache written; if it equals the pinned
\* record, neither happens.
C19_ReloadAndSaveIffRecordDiffers ==
    (pc = "sleep" /\ probe = "200") =>
       IF SameRecordPinned
       THEN issued = <<>> /\ ~saved
       ELSE issued = <<CandidateUrl>> /\ saved

\* ---------------------------------------------------------------------------
\* Convergence.

\* the steady server is pinned and its kiosk page is the last directive
PinnedToSteadyServer ==
    /\ current_ip = SteadyServer.ip
    /\ display = ShowUrl(SteadyServer.ip, SteadyServer.kiosk_port, zone)

\* C20: if from some iteration on every call of get_server_ip returns the same
\* server, its token is confirmed and its health probe answers 200, then from
\* whatever state the loop was in, that server is eventually pinned with its
\* kiosk page as the last directive, and this stays so.
C20_ConvergesToSteadyServer == steady ~> []PinnedToSteadyServer

\* ---------------------------------------------------------------------------
\* The cache file.

\* C21: the cache file is overwritten atomically: a process that starts and
\* reads the file while the controller writes it reads the complete previous
\* content or the complete new entry, never an empty or partly written file.
C21_ReaderSeesOldOrNew ==
    rpc = "done" => seen \in {old, entry}

\* ---------------------------------------------------------------------------
\* Time.

\* C22: every call of get_server_ip completes within the global timeout of
\* 8 s, also when every network operation of the chain runs to its own
\* timeout.
C22_LocateWithinGlobalTimeout ==
    tpc = "returned" => telapsed <= DISCOVERY_TIMEOUT

\* ---------------------------------------------------------------------------
\* Scenarios of the main loop.

\* a host found by the sweep carried a token, the re-query confirmed it, the
\* probe answered 200, and another host or none was pinned
SweepCandidateConfirmed ==
    /\ candidate.source = "scan"
    /\ HasToken
    /\ Confirmed
    /\ probe = "200"
    /\ prev_ip # candidate.ip

\* C23: a candidate (h, p) found by the sweep, with its token confirmed and
\* its probe answered 200 while another host or none is pinned, ends the
\* iteration with h pinned, the cache holding ip = h and kioskPort = p, and
\* showUrl("http://h:p/?zone=z") as the one directive issued.
C23_SweepCandidatePinnedSavedShown ==
    (SweepCandidateConfirmed /\ pc \notin {"save", "launch"}) =>
       /\ pc = "sleep"
       /\ current_ip = candidate.ip
       /\ cache = CacheObject(candidate.ip, candidate.kiosk_port)
       /\ issued = <<CandidateUrl>>
       /\ display = CandidateUrl

\* C24: without a zone main() never enters the loop: no strategy of the
\* locator runs, no validation and no health query is made, the cache is
\* neither written nor changed, no showUrl is issued; showOffline is issued
\* exactly once and main() returns.
C24_NoZoneOfflineAndReturn ==
    /\ [](zone = "" =>
             /\ pc \in {"start", "exited"}
             /\ tried = <<>> /\ queried = <<>>
             /\ candidate = NoCandidate
             /\ ~Requeried
             /\ probe = "none"
             /\ ~saved
             /\ current_ip = NoIp
             /\ issued = (IF pc = "exited" THEN <<ShowOffline>> ELSE <<>>)
             /\ display = (IF pc = "exited" THEN ShowOffline ELSE NoDirective))
    /\ [][zone = "" => cache' = cache]_vars
    /\ [](pc = "exited" => zone = "")
    /\ [][pc = "exited" => pc' = "exited"]_vars

\* main() has returned after showing the offline page
C24_Witness ==
    /\ zone = ""
    /\ pc = "exited"
    /\ display = ShowOffline

\* C25: the sleep that ends an iteration is chosen from the state the
\* iteration left: with no server pinned the loop sleeps backoff_delay and
\* multiplies it only afterwards, so the first sleep after a success lasts
\* 1 s; with a server pinned it sleeps 30 s and leaves backoff_delay alone.
C25_SleepThenMultiply ==
    /\ [][pc = "sleep" =>
             IF current_ip = NoIp
             THEN /\ slept' = backoff_delay
                  /\ backoff_delay' = Min(backoff_delay * BACKOFF_MULTIPLIER, BACKOFF_MAX)
             ELSE /\ slept' = POLL_INTERVAL
                  /\ backoff_delay' = backoff_delay]_vars
    /\ []((pc = "sleep" /\ prev_ip # NoIp /\ current_ip = NoIp) =>
             backoff_delay = BACKOFF_MIN)

\* the first sleep after a pinned server was lost has lasted 1 s, and the
\* delay was doubled after it
C25_Witness ==
    /\ pc = "mdns"
    /\ display = ShowOffline
    /\ slept = BACKOFF_MIN
    /\ backoff_delay = BACKOFF_MIN * BACKOFF_MULTIPLIER

\* ---------------------------------------------------------------------------
\* The mDNS listener.

\* C26: under every interleaving of add_service and remove_service with the
\* waiting discover_server_mdns, when the wait ended because the event was
\* set, discover_server_mdns returns a server: server_info is not None when
\* it is read.
C26_EventSetMeansServerReturned ==
    (mpc = "done" /\ woke = "event") => mresult # "none"

\* ---------------------------------------------------------------------------
\* The display at the end of an iteration.

OfflineIssued == \E n \in 1..Len(issued) : issued[n] = ShowOffline

\* the iteration has ended and it failed: nothing located, the token not
\* confirmed, or the probe not answered with 200
IterationFailed ==
    /\ pc = "sleep"
    /\ (NotFoundInput \/ RejectedInput \/ UnhealthyInput)

\* C27: in an iteration of the loop showOffline is issued if and only if a
\* server was pinned when the iteration began and the iteration failed; so a
\* failed iteration that began unpinned issues nothing, showOffline comes at
\* most once in a run of failures, and never before the first showUrl.
C27_OfflineIffPinnedAndFailed ==
    /\ [](pc = "sleep" => (OfflineIssued <=> (prev_ip # NoIp /\ IterationFailed)))
    /\ [](zone # "" /\ OfflineIssued => issued = <<ShowOffline>> /\ prev_ip # NoIp)
    /\ []((IterationFailed /\ prev_ip = NoIp) => issued = <<>> /\ current_ip = NoIp)
    /\ [][(zone # "" /\ display = NoDirective) => display' # ShowOffline]_vars

\* the pinned server's token was not confirmed and the offline page shown
C27_Witness ==
    /\ IterationFailed
    /\ RejectedInput
    /\ prev_ip # NoIp
    /\ issued = <<ShowOffline>>

\* a failed iteration within a run of failures, with the offline page
\* already up, issued nothing
C27_WitnessRun ==
    /\ IterationFailed
    /\ prev_ip = NoIp
    /\ display = ShowOffline
    /\ issued = <<>>

\* the iteration has ended with a server pinned (it ends Healthy)
EndsHealthy == pc = "sleep" /\ current_ip # NoIp

\* the kiosk URL of the pinned host and the port confirmed in this iteration
ConfirmedUrl == ShowUrl(current_ip, probed.port, zone)

\* C28: at the end of every iteration, if a server is pinned the most recent
\* display directive is showUrl of the pinned host and the kioskPort
\* health-confirmed in that iteration; if none is pinned the most recent
\* directive, if any, is showOffline.
C28_DisplayMatchesPin ==
    pc = "sleep" =>
       IF current_ip # NoIp
       THEN display = ConfirmedUrl
       ELSE display \in {NoDirective, ShowOffline}

\* C28 by host alone: the page shown is one of the pinned host
C28_DisplayMatchesPinnedHost ==
    pc = "sleep" =>
       IF current_ip # NoIp
       THEN display.kind = "url" /\ display.host = current_ip
       ELSE display \in {NoDirective, ShowOffline}

\* C29: at the end of every iteration that ends Healthy the cached entry is
\* the pinned host with the kioskPort health-confirmed in that iteration.
C29_CacheHoldsPinnedRecord ==
    EndsHealthy => cache = CacheObject(current_ip, probed.port)

\* C29 by host alone: the cached entry names the pinned host
C29_CacheHoldsPinnedHost ==
    EndsHealthy => cache.kind = "object" /\ cache.ip = current_ip

\* ---------------------------------------------------------------------------
\* The sweep's second query.

\* the second query was answered 200 with role main-server
SecondIsMainServer == rresp.kind = "ok" /\ rresp.role = "main-server"

\* the second query was answered, but not by a main-server: another status,
\* or 200 with another role
SecondIsOther ==
    \/ rresp.kind = "status"
    \/ rresp.kind = "ok" /\ rresp.role # "main-server"

\* the kioskPort of the second response, 3002 when it carries none
SecondKioskPort ==
    IF rresp.kioskPort = -1 THEN DEFAULT_KIOSK_PORT ELSE rresp.kioskPort

\* C30: a host reported by the sweep is queried a second time; it is returned
\* as the candidate only if the second response is 200 with role main-server,
\* and then with the kioskPort and token of the second response; if the second
\* response is non-200 or of another role, the locator goes on to the cache
\* and the swept host is not returned.
C30_SweepHitRequeried ==
    /\ \A n \in 1..Len(tried) :
          (tried[n].s = "scan" /\ Hit(n)) =>
             \/ n = Len(tried) /\ pc \in {"requery", "crashed"}
             \/ n < Len(tried) /\ tried[n + 1].s = "requery"
    /\ pc = "requery" => rresp = NoResponse /\ ip = queried[Len(queried)].host
    /\ (Returned /\ candidate.source = "scan") =>
          /\ SecondIsMainServer
          /\ tried[Len(tried)] = [s |-> "requery", role |-> "main-server"]
          /\ candidate.ip = queried[Len(queried)].host
          /\ candidate.kiosk_port = SecondKioskPort
          /\ candidate.token = rresp.token
    /\ SecondIsOther =>
          /\ \E n \in 1..Len(tried) : tried[n] = [s |-> "requery", role |-> RoleOf(rresp)]
          /\ \/ pc = "cache"
             \/ pc = "crashed" /\ raised = "cache"
             \/ Returned /\ candidate.source \in {"cache", "none"}

\* the swept host is returned with the port and token of its second answer
C30_Witness ==
    /\ Returned
    /\ candidate.source = "scan"
    /\ SecondIsMainServer
    /\ rresp.token # ""
    /\ candidate.kiosk_port = rresp.kioskPort

\* the second answer is of another role and the cache is consulted
C30_WitnessFallThrough ==
    /\ pc = "cache"
    /\ rresp.kind = "ok"
    /\ rresp.role = "other"

\* ===========================================================================
\* kiosk-client/portable_launcher.py: main() with a saved URL, lines 644-677.

\* the saved URLs followed
SavedUrls == {"http://192.168.1.15:3002/?zone=mens", "http://192.168.1.11:3002/?zone=womens"}

\* launch_browser(f"http://localhost:{SETUP_PORT}/offline"), line 110
OfflinePage == "http://localhost:8080/offline"

\* the variables main() of kiosk-client does not touch
besideClient ==
    <<mainvars, cachevars, timevars, mdnsvars, touchvars, wizardvars,
      portablevars, setupvars>>

\* lines 640-647: a saved URL was found
ClientInit ==
    /\ cpc = "check"
    /\ kiosk_url \in SavedUrls
    /\ was_offline = FALSE
    /\ offline_screen = FALSE
    /\ serving = 0
    /\ listening = 0
    /\ browser = ""
    /\ checked = "none"
    /\ before = "none"
    /\ done = <<>>
    /\ checks = 0
    /\ runs = 0
    /\ starts = 0

\* line 650: check_server(kiosk_url); any failure inside it counts as offline.
CheckServer ==
    /\ cpc = "check"
    /\ checks < MaxChecks
    /\ \E online \in BOOLEAN :
          /\ checked' = (IF online THEN "online" ELSE "offline")
          /\ cpc' = (IF online THEN "online" ELSE "offline")
          /\ runs' = (IF ~online /\ checked # "offline" THEN runs + 1 ELSE runs)
    /\ before' = checked
    /\ done' = <<>>
    /\ checks' = checks + 1
    /\ UNCHANGED <<besideClient, kiosk_url, was_offline, offline_screen, serving,
                   listening, browser, starts>>

\* lines 651-665: the server is online.  OfflineScreen.stop (112-115) shuts
\* the serve loop down and leaves the listening socket open.
ServerOnline ==
    /\ cpc = "online"
    /\ IF was_offline \/ offline_screen
       THEN /\ serving' = (IF offline_screen THEN 0 ELSE serving)
            /\ offline_screen' = FALSE
            /\ was_offline' = FALSE
            /\ browser' = kiosk_url
            /\ done' = (IF offline_screen THEN <<"stop", "kiosk">> ELSE <<"kiosk">>)
       ELSE IF ~was_offline
       THEN /\ browser' = kiosk_url
            /\ done' = <<"kiosk">>
            /\ UNCHANGED <<was_offline, offline_screen, serving>>
       ELSE UNCHANGED <<was_offline, offline_screen, serving, browser, done>>
    /\ cpc' = "check"
    /\ UNCHANGED <<besideClient, kiosk_url, listening, checked, before, checks,
                   runs, starts>>

\* lines 667-677: the server is offline.  OfflineScreen.start (104-110) binds
\* a new socket to SETUP_PORT: OSError (address in use), which nothing
\* catches, while a socket of an earlier OfflineScreen is still open.
ServerOffline ==
    /\ cpc = "offline"
    /\ IF ~was_offline
       THEN /\ was_offline' = TRUE
            /\ offline_screen' = TRUE
            /\ IF listening > 0
               THEN /\ cpc' = "crashed"
                    /\ serving' = (IF offline_screen THEN 0 ELSE serving)
                    /\ done' = (IF offline_screen THEN <<"stop">> ELSE <<>>)
                    /\ UNCHANGED <<listening, browser, starts>>
               ELSE /\ cpc' = "check"
                    /\ listening' = listening + 1
                    /\ serving' = (IF offline_screen THEN 0 ELSE serving) + 1
                    /\ browser' = OfflinePage
                    /\ starts' = starts + 1
                    /\ done' = (IF offline_screen THEN <<"stop">> ELSE <<>>)
                                  \o <<"start", "offline">>
       ELSE /\ cpc' = "check"
            /\ UNCHANGED <<was_offline, offline_screen, serving, listening, browser,
                           starts, done>>
    /\ UNCHANGED <<besideClient, kiosk_url, checked, before, checks, runs>>

\* The socket of a stopped OfflineScreen is closed when the garbage collector
\* frees the server object (stop never calls server_close), at a time the
\* program does not control.
CollectGarbage ==
    /\ cpc \in {"check", "online", "offline"}
    /\ listening > serving
    /\ listening' = listening - 1
    /\ UNCHANGED <<besideClient, cpc, kiosk_url, was_offline, offline_screen,
                   serving, browser, checked, before, done, checks, runs, starts>>

ClientNext == CheckServer \/ ServerOnline \/ ServerOffline \/ CollectGarbage

ClientSpecInit ==
    /\ MainIdle
    /\ LaunchIdle
    /\ ClientInit
    /\ TouchIdle
    /\ WizardIdle
    /\ PortableIdle
    /\ SetupIdle

ClientSpec == ClientSpecInit /\ [][ClientNext]_vars

\* ---------------------------------------------------------------------------
\* The kiosk browser in the saved-URL loop.

\* an iteration has ended
CheckDone == cpc = "check" /\ checked # "none"

KioskLaunched == \E n \in 1..Len(done) : done[n] = "kiosk"

\* C31: the kiosk browser is launched on the first check that finds the
\* server online and on each recovery from offline, and not by a check that
\* finds the server online when the check before it found it online too.
C31_LaunchOnFirstOnlineAndRecovery ==
    CheckDone =>
       (KioskLaunched <=> (checked = "online" /\ before # "online"))

\* C31 without its last part: every check that finds the server online
\* launches the kiosk browser, and no other check does
C31_LaunchOnEveryOnline ==
    CheckDone => (KioskLaunched <=> checked = "online")

\* ---------------------------------------------------------------------------
\* The OfflineScreen in the saved-URL loop.

\* on recovery the screen is stopped before the kiosk browser is launched
StoppedBeforeLaunch ==
    (checked = "online" /\ before = "offline" /\ cpc = "check") =>
       done = <<"stop", "kiosk">>

\* what holds of the OfflineScreen whether or not start raises
OneScreenAtMost ==
    /\ (cpc = "check") => (serving = 1 <=> was_offline)
    /\ serving <= 1
    /\ listening <= 1
    /\ StoppedBeforeLaunch

\* C32: at the end of every iteration an OfflineScreen is running if and only
\* if was_offline is true; at most one OfflineScreen, one listener on the
\* setup port, exists at any time; it is started exactly once per contiguous
\* run of failed checks; on recovery it is stopped before the kiosk browser
\* is launched.
C32_OneScreenPerOfflineRun ==
    /\ OneScreenAtMost
    /\ (cpc \notin {"online", "offline"}) => starts = runs

\* C32 for the runs of failed checks in which OfflineScreen.start returns
C32_OneScreenPerStartedRun ==
    /\ OneScreenAtMost
    /\ (cpc = "check") => starts = runs

\* ===========================================================================
\* kiosk-client/portable_launcher.py: touch_monitor_loop, lines 605-628.

CHECK_PERIOD == 15
FAILURE_LIMIT == 3
RESET_PERIOD == 60

\* time.time() when the loop starts, far above RESET_PERIOD
Epoch == 1000

\* seconds is_touch_working and reset_usb_touch can take
CheckTimes == {0, 5}
ResetTimes == {5}

\* ResetDue with a reset after two failures.
ResetDue_AfterTwo(fc) == fc >= 2

\* line 622: if failure_count >= 3
ResetDue(fc) == fc >= FAILURE_LIMIT

\* ResetAllowed without the throttle.
ResetAllowed_Always(now, last) == TRUE

\* line 625: if current_time - last_reset_time > 60
ResetAllowed(now, last) == now - last > RESET_PERIOD

besideTouch ==
    <<mainvars, cachevars, timevars, mdnsvars, clientvars, wizardvars,
      portablevars, setupvars>>

\* lines 607-608
TouchInit ==
    /\ touch_pc = "sleep"
    /\ failure_count = 0
    /\ last_reset_time = 0
    /\ clock = Epoch
    /\ log = <<>>
    /\ resets = <<>>

\* line 611: time.sleep(15)
TouchSleep ==
    /\ touch_pc = "sleep"
    /\ Len(log) < MaxTicks
    /\ clock' = clock + CHECK_PERIOD
    /\ touch_pc' = "check"
    /\ UNCHANGED <<besideTouch, failure_count, last_reset_time, log, resets>>

\* lines 613-628: one check and what follows it.  current_time is read after
\* is_touch_working has returned.
TouchCheck ==
    /\ touch_pc = "check"
    /\ \E working \in BOOLEAN, d \in CheckTimes, r \in ResetTimes :
          LET current_time == clock + d
          IN  IF working
              THEN /\ failure_count' = 0
                   /\ clock' = current_time
                   /\ log' = Append(log, "ok")
                   /\ UNCHANGED <<last_reset_time, resets>>
              ELSE IF ResetDue(failure_count + 1)
                      /\ ResetAllowed(current_time, last_reset_time)
              THEN /\ last_reset_time' = current_time
                   /\ failure_count' = 0        \* after reset_usb_touch()
                   /\ clock' = current_time + r
                   /\ log' = Append(log, "reset")
                   /\ resets' = Append(resets, current_time)
              ELSE /\ failure_count' = failure_count + 1
                   /\ clock' = current_time
                   /\ log' = Append(log, "fail")
                   /\ UNCHANGED <<last_reset_time, resets>>
    /\ touch_pc' = "sleep"
    /\ UNCHANGED besideTouch

\* time.time() is the wall clock: it can be set back while the loop sleeps.
ClockSetBack ==
    /\ touch_pc = "sleep"
    /\ clock - RESET_PERIOD >= Epoch
    /\ clock' = clock - RESET_PERIOD
    /\ UNCHANGED <<besideTouch, touch_pc, failure_count, last_reset_time, log, resets>>

TouchNext == TouchSleep \/ TouchCheck \/ ClockSetBack

TouchSpecInit ==
    /\ MainIdle
    /\ LaunchIdle
    /\ ClientIdle
    /\ TouchInit
    /\ WizardIdle
    /\ PortableIdle
    /\ SetupIdle

TouchSpec == TouchSpecInit /\ [][TouchNext]_vars

\* ---------------------------------------------------------------------------
\* The USB reset of the touchscreen monitor.

\* the failed checks at the end of the log, since the last success or reset
TrailingFails ==
    CHOOSE k \in 0..Len(log) :
       /\ \A n \in (Len(log) - k + 1)..Len(log) : log[n] = "fail"
       /\ k = Len(log) \/ log[Len(log) - k] # "fail"

ResetsLogged == Cardinality({n \in 1..Len(log) : log[n] = "reset"})

\* C33: reset_usb_touch is invoked only at a failed check that follows at
\* least two more failed checks with no successful check and no reset in
\* between; a successful check and a performed reset set failure_count to 0.
C33_ResetAfterThreeFailures ==
    /\ \A n \in 1..Len(log) :
          log[n] = "reset" => n >= 3 /\ log[n - 1] = "fail" /\ log[n - 2] = "fail"
    /\ Len(resets) = ResetsLogged
    /\ failure_count = TrailingFails

\* a reset after a success and three failures
C33_Witness ==
    /\ Len(log) >= 4
    /\ log[Len(log)] = "reset"
    /\ log[Len(log) - 3] = "ok"
    /\ failure_count = 0

\* C34: the recorded times of any two resets differ by more than 60 s; a
\* failed check that leaves failure_count at 3 or more without a reset is
\* within 60 s of the last reset and has increased failure_count, so the
\* reset fires at the first failed check more than 60 s after the last one.
C34_ResetAtMostOncePerMinute ==
    /\ [](\A i, j \in 1..Len(resets) :
             i < j => resets[j] - resets[i] > RESET_PERIOD)
    /\ [][(log' = Append(log, "fail") /\ failure_count' >= FAILURE_LIMIT) =>
             /\ resets # <<>>
             /\ clock' - resets[Len(resets)] <= RESET_PERIOD
             /\ failure_count' = failure_count + 1]_vars

\* a second reset at the fourth failed check after the first one: the third
\* was throttled
C34_Witness ==
    /\ Len(resets) = 2
    /\ Len(log) >= 5
    /\ log[Len(log)] = "reset"
    /\ \A n \in (Len(log) - 3)..(Len(log) - 1) : log[n] = "fail"
    /\ log[Len(log) - 4] = "reset"

\* ===========================================================================
\* kiosk-client/portable_launcher.py: SetupWizard, lines 202-319.  The server
\* is a ThreadingHTTPServer: each request runs in a thread of its own, and the
\* handlers take no lock, so they interleave statement by statement.

\* one thread per path that changes the wizard
Handlers == {"auto-search", "manual", "manual-submit", "finish"}

\* what auto_discover_server found, with "/?zone=mens" appended (line 270)
AutoUrl == "http://192.168.1.15:3002/?zone=mens"

\* the URLs typed into the manual form, stripped; "" is an empty field
FormUrls == {"", "http://10.0.0.5:3002/?zone=spa"}

besideWizard ==
    <<mainvars, cachevars, timevars, mdnsvars, clientvars, touchvars,
      portablevars, setupvars>>

\* lines 205-211, and start() up to done_event.wait() (213-226)
WizardInit ==
    /\ wizard_pc = "wait"
    /\ step = 1
    /\ wizard_url = ""
    /\ error_message = ""
    /\ result_url = ""
    /\ done_event = FALSE
    /\ config = ""
    /\ hpc = [h \in Handlers |-> "idle"]
    /\ form_url = ""
    /\ done_step = 0
    /\ returned_url = ""

\* thread h moves to position p
Goto(h, p) == hpc' = [hpc EXCEPT ![h] = p]

\* A request arrives while the server is serving (until shutdown, line 227).
Request ==
    /\ wizard_pc = "wait"
    /\ \E h \in Handlers :
          /\ hpc[h] = "idle"
          /\ Goto(h, "begin")
          /\ IF h = "manual-submit"
             THEN \E u \in FormUrls : form_url' = u          \* lines 280-283
             ELSE UNCHANGED form_url
    /\ UNCHANGED <<besideWizard, wizard_pc, step, wizard_url, error_message,
                   result_url, done_event, config, done_step, returned_url>>

\* _do_auto_search, lines 266-277
DoAutoSearch ==
    /\ \/ /\ hpc["auto-search"] = "begin"
          /\ \/ /\ wizard_url' = AutoUrl                                  \* 270
                /\ Goto("auto-search", "found")
                /\ UNCHANGED step
             \/ /\ step' = 3                                              \* 273
                /\ Goto("auto-search", "missed")
                /\ UNCHANGED wizard_url
          /\ UNCHANGED error_message
       \/ /\ hpc["auto-search"] = "found"
          /\ step' = 4                                                     \* 271
          /\ Goto("auto-search", "idle")
          /\ UNCHANGED <<wizard_url, error_message>>
       \/ /\ hpc["auto-search"] = "missed"
          /\ error_message' = "notfound"                                   \* 274
          /\ Goto("auto-search", "idle")
          /\ UNCHANGED <<wizard_url, step>>
    /\ UNCHANGED <<besideWizard, wizard_pc, result_url, done_event, config,
                   form_url, done_step, returned_url>>

\* do_GET for /manual, lines 243-245
DoManual ==
    /\ \/ /\ hpc["manual"] = "begin"
          /\ step' = 3                                                     \* 244
          /\ Goto("manual", "clear")
          /\ UNCHANGED error_message
       \/ /\ hpc["manual"] = "clear"
          /\ error_message' = ""                                           \* 245
          /\ Goto("manual", "idle")
          /\ UNCHANGED step
    /\ UNCHANGED <<besideWizard, wizard_pc, wizard_url, result_url, done_event,
                   config, form_url, done_step, returned_url>>

\* _handle_manual_submit, lines 279-296
HandleManualSubmit ==
    /\ \/ /\ hpc["manual-submit"] = "begin"
          /\ IF form_url = ""
             THEN /\ error_message' = "empty"                              \* 286
                  /\ Goto("manual-submit", "back")
                  /\ UNCHANGED <<wizard_url, step>>
             ELSE /\ wizard_url' = form_url                                \* 290
                  /\ Goto("manual-submit", "accept")
                  /\ UNCHANGED <<error_message, step>>
       \/ /\ hpc["manual-submit"] = "back"
          /\ step' = 3                                                     \* 287
          /\ Goto("manual-submit", "idle")
          /\ UNCHANGED <<wizard_url, error_message>>
       \/ /\ hpc["manual-submit"] = "accept"
          /\ step' = 4                                                     \* 291
          /\ Goto("manual-submit", "clear")
          /\ UNCHANGED <<wizard_url, error_message>>
       \/ /\ hpc["manual-submit"] = "clear"
          /\ error_message' = ""                                           \* 292
          /\ Goto("manual-submit", "idle")
          /\ UNCHANGED <<wizard_url, step>>
    /\ UNCHANGED <<besideWizard, wizard_pc, result_url, done_event, config,
                   form_url, done_step, returned_url>>

\* _handle_finish, lines 310-314: wizard.kiosk_url is read three times.
\* save_config can raise OSError, which ends the handler thread.
HandleFinish ==
    /\ \/ /\ hpc["finish"] = "begin"
          /\ Goto("finish", IF wizard_url # "" THEN "save" ELSE "idle")   \* 311
          /\ UNCHANGED <<config, result_url, done_event, done_step>>
       \/ /\ hpc["finish"] = "save"
          /\ \/ config' = wizard_url /\ Goto("finish", "result")           \* 312
             \/ Goto("finish", "idle") /\ UNCHANGED config
          /\ UNCHANGED <<result_url, done_event, done_step>>
       \/ /\ hpc["finish"] = "result"
          /\ result_url' = wizard_url                                      \* 313
          /\ Goto("finish", "set")
          /\ UNCHANGED <<config, done_event, done_step>>
       \/ /\ hpc["finish"] = "set"
          /\ done_event' = TRUE                                            \* 314
          /\ done_step' = (IF done_event THEN done_step ELSE step)
          /\ Goto("finish", "idle")
          /\ UNCHANGED <<config, result_url>>
    /\ UNCHANGED <<besideWizard, wizard_pc, step, wizard_url, error_message,
                   form_url, returned_url>>

\* SetupWizard.start, lines 226-229: done_event.wait() returns, the server is
\* shut down and result_url returned.
WizardReturn ==
    /\ wizard_pc = "wait"
    /\ done_event
    /\ wizard_pc' = "returned"
    /\ returned_url' = result_url
    /\ UNCHANGED <<besideWizard, step, wizard_url, error_message, result_url,
                   done_event, config, hpc, form_url, done_step>>

WizardNext ==
    \/ Request
    \/ DoAutoSearch
    \/ DoManual
    \/ HandleManualSubmit
    \/ HandleFinish
    \/ WizardReturn

WizardSpecInit ==
    /\ MainIdle
    /\ LaunchIdle
    /\ ClientIdle
    /\ TouchIdle
    /\ WizardInit
    /\ PortableIdle
    /\ SetupIdle

WizardSpec == WizardSpecInit /\ [][WizardNext]_vars

\* ---------------------------------------------------------------------------
\* Completion of the setup wizard.

\* no handler thread is between two statements
HandlersIdle == \A h \in Handlers : hpc[h] = "idle"

\* C35: under any interleaving of the requests the wizard completes only
\* after a configuration with a non-empty kiosk_url has been saved, with
\* result_url equal to the saved kiosk_url, and only while the wizard is on
\* step 4.
C35_CompletesOnSuccessStep ==
    done_event =>
       /\ config # ""
       /\ result_url = config
       /\ done_step = 4

\* C35, first part: completion only after a non-empty kiosk_url was saved,
\* and start() returns a non-empty URL
C35_CompletesAfterSave ==
    /\ done_event => config # "" /\ result_url # ""
    /\ wizard_pc = "returned" => done_event /\ returned_url # ""

\* C35, second part alone
C35_ResultIsSavedUrl == done_event => result_url = config

\* C35, last part: a /finish request that finds kiosk_url empty changes nothing
C35_EmptyFinishChangesNothing ==
    [][(hpc["finish"] = "begin" /\ hpc["finish"]' = "idle") =>
          (wizard_url = "" /\ UNCHANGED <<config, result_url, done_event, step, wizard_url>>)]_vars

\* the wizard has completed on step 3, as after /manual-submit, /manual and
\* /finish, each handled to its end
C35_CompletedOnStepThree ==
    /\ done_event
    /\ done_step = 3
    /\ HandlersIdle
    /\ error_message = ""
    /\ result_url = config
    /\ config \in FormUrls

\* ===========================================================================
\* portable-kiosk/portable_launcher.py: main(), lines 260-291.

\* config.get("zone") and config.get("server_url"), "" when absent or empty
Configs(zs, us) == [zone : zs, server_url : us]

PortableZones == {"mens", "womens", "spa"}
ServerUrls == {"http://192.168.1.15:3002", "http://kiosk-server.local"}

\* what load_config can return, line 261
LoadedConfigs == Configs(PortableZones \cup {""}, ServerUrls \cup {""})

\* what ManualSetupServer.start returns: a zone and a normalized URL
SetupResults == Configs(PortableZones, ServerUrls)

NoUrl == [base |-> "", zone |-> ""]

\* append_zone, lines 76-81: the query of base_url with zone set to the zone
AppendZone(base_url, z) == [base |-> base_url, zone |-> z]

\* lines 263 and 271: neither value is missing or empty
Complete(c) == c.zone # "" /\ c.server_url # ""

besidePortable ==
    <<mainvars, cachevars, timevars, mdnsvars, clientvars, touchvars,
      wizardvars, setupvars>>

\* line 261
PortableInit ==
    /\ ppc = "start"
    /\ pconfig \in LoadedConfigs
    /\ stale = 0
    /\ launched = NoUrl
    /\ pinged = "none"
    /\ setups = 0
    /\ answer = [zone |-> "", server_url |-> ""]

\* lines 263-265: the first setup, when the loaded configuration is incomplete
CheckConfig ==
    /\ ppc = "start"
    /\ ppc' = (IF Complete(pconfig) THEN "loop" ELSE "setup")
    /\ UNCHANGED <<besidePortable, pconfig, stale, launched, pinged, setups, answer>>

\* lines 269-290, up to the call of setup.start(): one attempt
Attempt ==
    /\ ppc = "loop"
    /\ IF ~Complete(pconfig)
       THEN /\ ppc' = "setup"
            /\ pinged' = "none"
            /\ UNCHANGED launched
       ELSE \E ok \in BOOLEAN :
               /\ pinged' = (IF ok THEN "ok" ELSE "failed")
               /\ IF ok
                  THEN /\ launched' = AppendZone(pconfig.server_url, pconfig.zone)
                       /\ ppc' = "waiting"              \* wait_forever()
                  ELSE /\ ppc' = "setup"
                       /\ UNCHANGED launched
    /\ UNCHANGED <<besidePortable, pconfig, stale, setups, answer>>

\* setup.start(), lines 266, 277, 291 and 132-144.  ThreadingHTTPServer binds
\* SETUP_PORT: OSError (address in use), which nothing catches, while the
\* socket of an earlier setup server is open; shutdown() (142) leaves the
\* socket of this one open.
ManualSetup ==
    /\ ppc = "setup"
    /\ setups < MaxSetups
    /\ IF stale > 0
       THEN /\ ppc' = "crashed"
            /\ UNCHANGED <<pconfig, stale, setups, answer>>
       ELSE \E r \in SetupResults :
               /\ answer' = r
               /\ pconfig' = r
               /\ stale' = stale + 1
               /\ setups' = setups + 1
               /\ ppc' = "loop"
    /\ UNCHANGED <<besidePortable, launched, pinged>>

\* The socket of an earlier setup server is closed when the garbage collector
\* frees the server object, which main() lets go of when it builds the next
\* ManualSetupServer (265, 272, 286).
CollectSetupServer ==
    /\ ppc = "setup"
    /\ stale > 0
    /\ stale' = stale - 1
    /\ UNCHANGED <<besidePortable, ppc, pconfig, launched, pinged, setups, answer>>

PortableNext == CheckConfig \/ Attempt \/ ManualSetup \/ CollectSetupServer

PortableSpecInit ==
    /\ MainIdle
    /\ LaunchIdle
    /\ ClientIdle
    /\ TouchIdle
    /\ WizardIdle
    /\ PortableInit
    /\ SetupIdle

PortableSpec == PortableSpecInit /\ [][PortableNext]_vars

\* ---------------------------------------------------------------------------
\* Launch and setup in the portable-kiosk launcher.

\* the kiosk browser was launched
KioskRunning == launched # NoUrl

\* the kiosk browser is launched only with the zone-appended URL of a complete
\* configuration whose server answered the ping, and nothing follows a launch
LaunchOnlyWhenReachable ==
    /\ [](KioskRunning =>
            /\ ppc = "waiting"
            /\ pconfig.zone # "" /\ pconfig.server_url # ""
            /\ pinged = "ok"
            /\ launched = [base |-> pconfig.server_url, zone |-> pconfig.zone])
    /\ [][KioskRunning => UNCHANGED portablevars]_vars

\* a setup is called for exactly when the configuration is incomplete or the
\* ping failed
SetupWhenNeeded ==
    [][ppc' = "setup" <=>
          /\ ppc \in {"start", "loop"}
          /\ \/ pconfig.zone = "" \/ pconfig.server_url = ""
             \/ pinged' = "failed"]_ppc

\* C36: the kiosk browser is launched with the zone-appended URL only when
\* the configuration is complete and the ping succeeded; whenever the
\* configuration is incomplete or the ping fails the manual setup server is
\* run and its result replaces the configuration before the next attempt;
\* after a kiosk launch no further setup or launch happens.
C36_LaunchOrSetup ==
    /\ LaunchOnlyWhenReachable
    /\ SetupWhenNeeded
    /\ [][ppc = "setup" =>
             /\ ppc' = "loop"
             /\ setups' = setups + 1
             /\ pconfig' = answer']_ppc

\* C36 for the setups whose server could bind the setup port
C36_LaunchOrSetupWhenBound ==
    /\ LaunchOnlyWhenReachable
    /\ SetupWhenNeeded
    /\ [][(ppc = "setup" /\ ppc' # "crashed") =>
             /\ ppc' = "loop"
             /\ setups' = setups + 1
             /\ pconfig' = answer']_ppc

\* ===========================================================================
\* portable-kiosk/portable_launcher.py: ManualSetupServer, lines 123-179.
\* Each POST runs in a thread of its own (ThreadingHTTPServer).

PostThreads == {1, 2}

\* A URL as typed into the form, already stripped: with or without "://"
\* (sep), the text before it (scheme), the host, the path as its segments and
\* whether it ends with "/", and the query.  The empty string has no part.
RawUrls ==
    {r \in [sep : BOOLEAN, scheme : {"", "http"}, host : {"", "192.168.1.15:3002"},
            segs : {<<>>, <<"kiosk">>}, slash : BOOLEAN, query : {"", "zone=x"}] :
        ~r.sep => r.scheme = ""}

EmptyUrl ==
    [sep |-> FALSE, scheme |-> "", host |-> "", segs |-> <<>>, slash |-> FALSE,
     query |-> ""]

\* form.get("zone", [""])[0].strip()
FormZones == {"", "mens"}

Forms == [zone : FormZones, server_url : RawUrls]

\* normalize_server_url returned None
NoServerUrl == [scheme |-> "", host |-> "", segs |-> <<>>, slash |-> FALSE]

NoResult == [zone |-> "", server_url |-> NoServerUrl]

\* normalize_server_url without the test of line 66.
NormalizeServerUrl_Unchecked(raw_url) ==
    [scheme |-> (IF raw_url.sep THEN raw_url.scheme ELSE "http"),
     host |-> raw_url.host,
     segs |-> raw_url.segs,
     slash |-> raw_url.slash /\ raw_url.segs = <<>>]

\* normalize_server_url, lines 59-73: "http://" is put before a text without
\* "://"; a URL without scheme or host is refused; the query is dropped; a
\* trailing "/" is removed unless the path is "/".
normalize_server_url(raw_url) ==
    IF raw_url = EmptyUrl
    THEN NoServerUrl
    ELSE LET scheme == IF raw_url.sep THEN raw_url.scheme ELSE "http"
         IN  IF scheme = "" \/ raw_url.host = ""
             THEN NoServerUrl
             ELSE [scheme |-> scheme,
                   host |-> raw_url.host,
                   segs |-> raw_url.segs,
                   slash |-> raw_url.slash /\ raw_url.segs = <<>>]

besideSetup ==
    <<mainvars, cachevars, timevars, mdnsvars, clientvars, touchvars, wizardvars,
      portablevars>>

\* lines 124-130, and start() up to self._event.wait() (132-140)
SetupInit ==
    /\ setup_pc = "wait"
    /\ result = NoResult
    /\ setup_event = FALSE
    /\ saved_config = NoResult
    /\ post_pc = [t \in PostThreads |-> "idle"]
    /\ form = [t \in PostThreads |-> [zone |-> "", server_url |-> EmptyUrl]]
    /\ accepted = [t \in PostThreads |-> NoResult]
    /\ setup_result = NoResult

\* lines 158-166: a POST /submit arrives while the server is serving
PostSubmit ==
    /\ setup_pc = "wait"
    /\ \E t \in PostThreads, f \in Forms :
          /\ post_pc[t] = "idle"
          /\ post_pc' = [post_pc EXCEPT ![t] = "check"]
          /\ form' = [form EXCEPT ![t] = f]
    /\ UNCHANGED <<besideSetup, setup_pc, result, setup_event, saved_config,
                   accepted, setup_result>>

\* lines 167-173: the form is refused, or zone and normalized_url are held
CheckForm ==
    /\ \E t \in PostThreads :
          /\ post_pc[t] = "check"
          /\ LET form_zone == form[t].zone
                 server_url == form[t].server_url
                 normalized_url == normalize_server_url(server_url)
             IN  IF form_zone = "" \/ server_url = EmptyUrl \/ normalized_url = NoServerUrl
                 THEN /\ post_pc' = [post_pc EXCEPT ![t] = "idle"]
                      /\ UNCHANGED accepted
                 ELSE /\ post_pc' = [post_pc EXCEPT ![t] = "assign"]
                      /\ accepted' = [accepted EXCEPT ![t] =
                            [zone |-> form_zone, server_url |-> normalized_url]]
          /\ form' = [form EXCEPT ![t] = [zone |-> "", server_url |-> EmptyUrl]]
    /\ UNCHANGED <<besideSetup, setup_pc, result, setup_event, saved_config,
                   setup_result>>

\* line 174: outer._result = {...}
AssignResult ==
    /\ \E t \in PostThreads :
          /\ post_pc[t] = "assign"
          /\ result' = accepted[t]
          /\ post_pc' = [post_pc EXCEPT ![t] = "save"]
    /\ UNCHANGED <<besideSetup, setup_pc, setup_event, saved_config, form,
                   accepted, setup_result>>

\* line 175: save_config(outer._result); OSError ends the thread
SaveResult ==
    /\ \E t \in PostThreads :
          /\ post_pc[t] = "save"
          /\ \/ /\ saved_config' = result
                /\ post_pc' = [post_pc EXCEPT ![t] = "signal"]
                /\ UNCHANGED accepted
             \/ /\ post_pc' = [post_pc EXCEPT ![t] = "idle"]
                /\ accepted' = [accepted EXCEPT ![t] = NoResult]
                /\ UNCHANGED saved_config
    /\ UNCHANGED <<besideSetup, setup_pc, result, setup_event, form, setup_result>>

\* line 176: outer._event.set()
SignalDone ==
    /\ \E t \in PostThreads :
          /\ post_pc[t] = "signal"
          /\ setup_event' = TRUE
          /\ post_pc' = [post_pc EXCEPT ![t] = "idle"]
          /\ accepted' = [accepted EXCEPT ![t] = NoResult]
    /\ UNCHANGED <<besideSetup, setup_pc, result, saved_config, form, setup_result>>

\* lines 140-144: self._event.wait() returns, shutdown, return self._result
SetupReturn ==
    /\ setup_pc = "wait"
    /\ setup_event
    /\ setup_pc' = "returned"
    /\ setup_result' = result
    /\ UNCHANGED <<besideSetup, result, setup_event, saved_config, post_pc, form,
                   accepted>>

SetupNext ==
    \/ PostSubmit
    \/ CheckForm
    \/ AssignResult
    \/ SaveResult
    \/ SignalDone
    \/ SetupReturn

SetupSpecInit ==
    /\ MainIdle
    /\ LaunchIdle
    /\ ClientIdle
    /\ TouchIdle
    /\ WizardIdle
    /\ PortableIdle
    /\ SetupInit

SetupSpec == SetupSpecInit /\ [][SetupNext]_vars

\* ---------------------------------------------------------------------------
\* What a POST /submit does to the setup.

\* the form cannot be accepted: a field is empty, or the server_url has no
\* host, or it has "://" with nothing before it
InvalidForm(f) ==
    \/ f.zone = ""
    \/ f.server_url = EmptyUrl
    \/ f.server_url.host = ""
    \/ f.server_url.sep /\ f.server_url.scheme = ""

\* a zone with a URL that has scheme and host, no query, and no trailing "/"
\* after a path
ValidResult(r) ==
    /\ r.zone # ""
    /\ r.server_url.scheme # ""
    /\ r.server_url.host # ""
    /\ r.server_url.slash => r.server_url.segs = <<>>

\* thread t takes the step that decides on its form
Decides(t) == post_pc[t] = "check" /\ post_pc'[t] # "check"

\* C37: a POST /submit with an empty zone, an empty server_url or a
\* server_url without scheme and host leaves the result and the saved
\* configuration unchanged and does not complete the setup; a valid one sets
\* the result to its zone and normalized server_url, saves it and then
\* signals completion; start() never returns a result with an empty zone or
\* server_url.
C37_OnlyValidSubmissionCompletes ==
    /\ [][\A t \in PostThreads :
             (Decides(t) /\ InvalidForm(form[t])) =>
                /\ post_pc'[t] = "idle"
                /\ UNCHANGED <<result, saved_config, setup_event>>]_vars
    /\ [][\A t \in PostThreads :
             (Decides(t) /\ ~InvalidForm(form[t])) =>
                /\ post_pc'[t] = "assign"
                /\ accepted'[t].zone = form[t].zone
                /\ accepted'[t].server_url.host = form[t].server_url.host
                /\ accepted'[t].server_url.segs = form[t].server_url.segs
                /\ ValidResult(accepted'[t])]_vars
    /\ [][result' # result =>
             \E t \in PostThreads : post_pc[t] = "assign" /\ result' = accepted[t]]_vars
    /\ [][(setup_event' /\ ~setup_event) =>
             ValidResult(result) /\ ValidResult(saved_config)]_vars
    /\ [](result # NoResult => ValidResult(result))
    /\ [](saved_config # NoResult => ValidResult(saved_config))
    /\ [](setup_pc = "returned" => setup_event /\ ValidResult(setup_result))

\* start() has returned a zone with a URL that was typed with a path ending
\* in "/"
C37_Witness ==
    /\ setup_pc = "returned"
    /\ setup_result.zone = "mens"
    /\ setup_result.server_url.scheme = "http"
    /\ setup_result.server_url.segs = <<"kiosk">>
    /\ ~setup_result.server_url.slash
    /\ saved_config = setup_result
====
